---------------------------- MODULE Spec2Model ----------------------------
(***************************************************************************)
(* A model of the pixel-level image engine of case-converter-ocr           *)
(* (src/src/utils/imageUtils.ts) and of the ImageProcessor component that  *)
(* drives it (src/src/components/ImageProcessor.tsx).                      *)
(*                                                                         *)
(* The module holds several specifications over one set of variables:      *)
(*   SpecMerge      mergeOverlappingRegions on bounded lists of rectangles *)
(*   SpecWatermark  removeWatermark on small buffers and manual regions    *)
(*   SpecModelLoad  the model-load effect of the ImageProcessor component  *)
(*                  and calls of removeBackground                          *)
(*   SpecUI         the ImageProcessor component: the model-load effect,   *)
(*                  the file list, the batch handler                       *)
(*   SpecPipeline   upscaleImage, processImageAdvanced and the format path *)
(*                  of processImage on small images                        *)
(*   SpecHeuristic  removeBackgroundAdvanced on images of one colour,      *)
(*                  images with a block of a second colour and stripes     *)
(*   SpecKernel     cubicWeight and the four weights of one axis of        *)
(*                  bicubicInterpolation on rational arguments, and        *)
(*                  bicubic calls of upscaleImage                          *)
(* Each specification leaves the variables of the others at their idle     *)
(* values.                                                                 *)
(***************************************************************************)
EXTENDS Integers, Sequences, FiniteSets, TLC

VARIABLES
    regions,        \* mergeOverlappingRegions: the candidate list passed in
    merged,         \* mergeOverlappingRegions: the list returned
    mergeDone,      \* whether mergeOverlappingRegions has returned
    image,          \* removeWatermark: the decoded input image
    wmOptions,      \* removeWatermark: the WatermarkRemovalOptions passed in
    wmCanvas,       \* removeWatermark: the canvas returned
    wmStatus,       \* "idle" before the call, "returned" after it
    wmTrace,        \* what the call did: the inpainting mask, the pixel
                    \* coordinates it indexed the buffer with
    bodyPixModel,   \* imageUtils.ts line 20: "null" or "model"
    isModelLoaded,  \* ImageProcessor state (line 42)
    isLoadingModel, \* ImageProcessor state (line 43)
    effectPending,  \* the load effect is scheduled to run after a commit
    loadPc,         \* loadModel: "none", or where its await stands
    loadLog,        \* history: "start", "ok", "fail" of initializeBodyPix calls
    rbResult,       \* the last call of removeBackground and how it ended
    selectedFiles,  \* ImageProcessor state (line 40)
    filesDropped,   \* how many File objects have been dropped so far
    processedImages,    \* ImageProcessor state (line 41)
    processingProgress, \* ImageProcessor state (line 44): "null" or a stage
    batches,        \* the handleProcessImages calls in flight, by slot
    storedFrom,     \* history: the batch whose results processedImages holds
    frozen,         \* the page's thread is inside a loop that never ends
    pipeImage,      \* upscaleImage / processImageAdvanced: the input image
    pipeOptions,    \* the scale factor, algorithm and removeBackground flag
    pipeCalled,     \* "none", or the function that was called
    pipeResult,     \* how the call ended and the canvas it returned
    pipeTrace,      \* history: the calls processImageAdvanced made, in order
    bgImage,        \* removeBackgroundAdvanced: the input image
    bgOptions,      \* removeBackgroundAdvanced: the options passed in
    bgResult,       \* how the call ended and the canvas it returned
    kernelT,        \* cubicWeight: the argument t as the fraction n / d
    kernelCalled,   \* "none", or what was computed from kernelT
    kernelWeights   \* the weights computed, each times 2 * d^3

mergeVars == <<regions, merged, mergeDone>>
wmVars == <<image, wmOptions, wmCanvas, wmStatus, wmTrace>>

loadVars == <<bodyPixModel, isModelLoaded, isLoadingModel, effectPending,
              loadPc, loadLog>>
fileVars == <<selectedFiles, filesDropped>>
batchVars == <<processedImages, processingProgress, batches, storedFrom, frozen>>
uiVars == <<bodyPixModel, isModelLoaded, isLoadingModel, effectPending, loadPc,
            loadLog, rbResult, selectedFiles, filesDropped, processedImages,
            processingProgress, batches, storedFrom, frozen>>

pipeVars == <<pipeImage, pipeOptions, pipeCalled, pipeResult, pipeTrace>>
bgVars == <<bgImage, bgOptions, bgResult>>
kernelVars == <<kernelT, kernelCalled, kernelWeights>>

vars == <<regions, merged, mergeDone, image, wmOptions, wmCanvas, wmStatus,
          wmTrace, bodyPixModel, isModelLoaded, isLoadingModel, effectPending,
          loadPc, loadLog, rbResult, selectedFiles, filesDropped,
          processedImages, processingProgress, batches, storedFrom, frozen,
          pipeImage, pipeOptions, pipeCalled, pipeResult, pipeTrace, bgImage,
          bgOptions, bgResult, kernelT, kernelCalled, kernelWeights>>

Min(a, b) == IF a < b THEN a ELSE b
Max(a, b) == IF a > b THEN a ELSE b

(***************************************************************************)
(* mergeOverlappingRegions (imageUtils.ts 1467-1514)                       *)
(***************************************************************************)

\* Bounds of the candidate lists explored.
MaxRegions == 3
MaxCoord == 3

\* Candidate rectangles: origins on the grid 0..MaxCoord x {0, 1, 2}, widths
\* 2 and 3, height 2.  Two rectangles at y = 0 and y = 2 touch without
\* overlapping, two at y = 0 and y = 1 share a row of pixels; in x they
\* overlap, touch or are apart.
RegionYs == {0, 1, 2}
RegionWidths == {2, 3}
RegionHeights == {2}

Rect(x, y, w, h) == [x |-> x, y |-> y, width |-> w, height |-> h]

CandidateRects ==
    {Rect(x, y, w, h) : x \in 0..MaxCoord, y \in RegionYs,
                        w \in RegionWidths, h \in RegionHeights}

CandidateLists == UNION {[1..n -> CandidateRects] : n \in 0..MaxRegions}

\* The overlap test of lines 1488-1491.
RegionsOverlap(current, other) ==
    /\ current.x < other.x + other.width
    /\ current.x + current.width > other.x
    /\ current.y < other.y + other.height
    /\ current.y + current.height > other.y

\* An absorption that leaves current as it is, in place of lines 1494-1504.
RegionUnionKeepsCurrent(current, other) == current
\* The bounding-box union of lines 1494-1504.
RegionUnion(current, other) ==
    LET minX == Min(current.x, other.x)
        minY == Min(current.y, other.y)
        maxX == Max(current.x + current.width, other.x + other.width)
        maxY == Max(current.y + current.height, other.y + other.height)
    IN  Rect(minX, minY, maxX - minX, maxY - minY)

\* The inner loop over j (lines 1482-1508): one pass over the regions after
\* i, absorbing into current each unused region that overlaps current as it
\* is at that moment.  Indices are 1-based here, 0-based in the code.
RECURSIVE MergeInner(_, _, _, _)
MergeInner(rs, j, current, used) ==
    IF j > Len(rs) THEN [current |-> current, used |-> used]
    ELSE IF j \in used THEN MergeInner(rs, j + 1, current, used)
    ELSE IF RegionsOverlap(current, rs[j])
         THEN MergeInner(rs, j + 1, RegionUnion(current, rs[j]), used \cup {j})
         ELSE MergeInner(rs, j + 1, current, used)

\* The outer loop over i (lines 1475-1511).
RECURSIVE MergeOuter(_, _, _, _)
MergeOuter(rs, i, out, used) ==
    IF i > Len(rs) THEN out
    ELSE IF i \in used THEN MergeOuter(rs, i + 1, out, used)
    ELSE LET r == MergeInner(rs, i + 1, rs[i], used \cup {i})
         IN  MergeOuter(rs, i + 1, Append(out, r.current), r.used)

MergeOverlappingRegions(rs) ==
    IF Len(rs) <= 1 THEN rs ELSE MergeOuter(rs, 1, <<>>, {})

(***************************************************************************)
(* Pixel buffers.  A buffer is [width, height, data]; data maps the pixel  *)
(* index py * width + px (0-based, row-major) to <<r, g, b, a>>, so the    *)
(* byte idx + c of the code's Uint8ClampedArray is data[idx \div 4][c + 1].*)
(* A canvas holds exactly the bytes put into it.                           *)
(***************************************************************************)

Buffer(w, h, d) == [width |-> w, height |-> h, data |-> d]

PixelIndex(px, py, width) == py * width + px

\* canvas.width = img.width; canvas.height = img.height; drawImage(img, 0, 0)
\* on the new, transparent canvas (lines 689-696).
\* A canvas of the image's size on which nothing is drawn.
NewBlankCanvas(img) ==
    Buffer(img.width, img.height, [i \in DOMAIN img.data |-> <<0, 0, 0, 0>>])
DrawImageToNewCanvas(img) == Buffer(img.width, img.height, img.data)

\* A function built with [x \in S |-> e] is evaluated anew at each
\* application; Table(f) is the same function as a finished table.
Table(f) == f @@ [x \in {} |-> 0]

RECURSIVE SumOver(_, _)
SumOver(S, f) ==
    IF S = {} THEN 0
    ELSE LET x == CHOOSE x \in S : TRUE IN f[x] + SumOver(S \ {x}, f)

Abs(n) == IF n < 0 THEN -n ELSE n

\* The pixel whose colour bytes are those of rgb and whose alpha byte is that
\* of old: what the loops that write idx, idx+1, idx+2 and leave or copy
\* idx+3 store (lines 779-782, 897-900, 941-944).
WithAlphaOf(rgb, old) == <<rgb[1], rgb[2], rgb[3], old[4]>>

ClampByte(n) == Max(0, Min(255, n))

\* Storing the real number num / den (den > 0) into a Uint8ClampedArray:
\* rounded to the nearest integer, halves to the even one, then clamped.
ToUint8Clamped(num, den) ==
    LET q == num \div den
        twice == 2 * (num % den)
        rounded == IF twice > den THEN q + 1
                   ELSE IF twice < den THEN q
                   ELSE IF q % 2 = 0 THEN q ELSE q + 1
    IN  ClampByte(rounded)

\* Math.round(num / den) for den > 0: halves go up.
MathRound(num, den) == (2 * num + den) \div (2 * den)

(***************************************************************************)
(* Math.exp and Math.sqrt in fixed point.  ExpNeg(y) is 10^4 * exp(-y/1000)*)
(* from four tables of 10^4 * exp(-i), exp(-i/10), exp(-i/100) and         *)
(* exp(-i/1000), i = 0..9, multiplied with rounding: exact to about three  *)
(* decimal digits, where the code computes in IEEE doubles.                *)
(***************************************************************************)
ExpTableOnes == <<10000, 3679, 1353, 498, 183, 67, 25, 9, 3, 1>>
ExpTableTenths == <<10000, 9048, 8187, 7408, 6703, 6065, 5488, 4966, 4493, 4066>>
ExpTableHundredths == <<10000, 9900, 9802, 9704, 9608, 9512, 9418, 9324, 9231, 9139>>
ExpTableThousandths == <<10000, 9990, 9980, 9970, 9960, 9950, 9940, 9930, 9920, 9910>>

MulFixed(a, b) == (a * b + 5000) \div 10000

ExpNeg(y) ==
    IF y >= 10000 THEN 0
    ELSE MulFixed(MulFixed(ExpTableOnes[(y \div 1000) + 1],
                           ExpTableTenths[((y \div 100) % 10) + 1]),
                  MulFixed(ExpTableHundredths[((y \div 10) % 10) + 1],
                           ExpTableThousandths[(y % 10) + 1]))

\* floor(sqrt(n)) for n >= 0, by bisection.
RECURSIVE SqrtBetween(_, _, _)
SqrtBetween(n, lo, hi) ==
    IF hi - lo <= 1 THEN lo
    ELSE LET mid == (lo + hi) \div 2
         IN  IF mid * mid <= n THEN SqrtBetween(n, mid, hi)
             ELSE SqrtBetween(n, lo, mid)

ISqrt(n) == SqrtBetween(n, 0, Min(n, 46340) + 1)

(***************************************************************************)
(* Frequency method (imageUtils.ts 1199-1261)                              *)
(***************************************************************************)

\* kernel[ky][kx] of lines 1230-1234.
HighPassKernel(ky, kx) == IF ky = 1 /\ kx = 1 THEN 8 ELSE -1

\* The value written at an interior pixel for channel c (lines 1239-1251).
HighPassChannel(data, x, y, width, c) ==
    LET taps == (0..2) \X (0..2)
        sum == SumOver(taps,
                 [k \in taps |->
                    data[PixelIndex(x + k[2] - 1, y + k[1] - 1, width)][c]
                      * HighPassKernel(k[1], k[2])])
    IN  Max(0, Min(255, sum + 128))

\* applyHighPassFilter: filtered starts as new Uint8ClampedArray(data.length),
\* all zero; only the pixels with 1 <= x < width-1, 1 <= y < height-1 are
\* written (RGB filtered, alpha copied).
ApplyHighPassFilter(data, width, height) ==
  Table(
    [i \in DOMAIN data |->
        LET x == i % width
            y == i \div width
        IN  IF x >= 1 /\ x < width - 1 /\ y >= 1 /\ y < height - 1
            THEN <<HighPassChannel(data, x, y, width, 1),
                   HighPassChannel(data, x, y, width, 2),
                   HighPassChannel(data, x, y, width, 3),
                   data[i][4]>>
            ELSE <<0, 0, 0, 0>>])

\* removeWatermarkByFrequencyAnalysis: every byte of the canvas is replaced
\* by the filtered byte (lines 1213-1217).
RemoveWatermarkByFrequencyAnalysis(canvas, options) ==
    Buffer(canvas.width, canvas.height,
           ApplyHighPassFilter(canvas.data, canvas.width, canvas.height))

(***************************************************************************)
(* Blur method with a manual region (imageUtils.ts 715-863)                *)
(***************************************************************************)

\* detectLocalEdge on the region's own pixels (lines 792-821).  Brightness
\* is (r+g+b)/3, so |b1 - b2| > 30 is |sum1 - sum2| > 90.
RgbSum(p) == p[1] + p[2] + p[3]

DetectLocalEdge(data, x, y, width, height) ==
    IF x <= 0 \/ x >= width - 1 \/ y <= 0 \/ y >= height - 1 THEN TRUE
    ELSE \E d \in ((-1..1) \X (-1..1)) \ {<<0, 0>>} :
            LET nx == x + d[1]
                ny == y + d[2]
            IN  /\ nx >= 0 /\ nx < width /\ ny >= 0 /\ ny < height
                /\ Abs(RgbSum(data[PixelIndex(nx, ny, width)])
                       - RgbSum(data[PixelIndex(x, y, width)])) > 90

\* radius of line 835.
BlurRadius(intensity) == Max(1, intensity \div 3)

\* weight of line 847 for squared distance d2, times 10^4.
GaussWeight(d2, radius) ==
    ExpNeg((1000 * d2 + radius * radius) \div (2 * radius * radius))

\* getAdaptiveBlurredPixel (lines 824-863): the three channel values, each
\* as stored into the Uint8ClampedArray newData.
GetAdaptiveBlurredPixel(data, x, y, width, height, intensity) ==
    LET radius == BlurRadius(intensity)
        near == {d \in (-radius..radius) \X (-radius..radius) :
                    /\ x + d[1] >= 0 /\ x + d[1] < width
                    /\ y + d[2] >= 0 /\ y + d[2] < height}
        w == Table([d \in near |->
                      GaussWeight(d[1] * d[1] + d[2] * d[2], radius)])
        totalWeight == SumOver(near, w)
        chan(c) == SumOver(near,
                     [d \in near |->
                        data[PixelIndex(x + d[1], y + d[2], width)][c] * w[d]])
    IN  IF totalWeight > 0
        THEN <<ToUint8Clamped(chan(1), totalWeight),
               ToUint8Clamped(chan(2), totalWeight),
               ToUint8Clamped(chan(3), totalWeight)>>
        ELSE <<data[PixelIndex(x, y, width)][1],
               data[PixelIndex(x, y, width)][2],
               data[PixelIndex(x, y, width)][3]>>

\* ctx.getImageData(x, y, width, height) for a rectangle inside the canvas.
GetImageData(canvas, x, y, width, height) ==
    Table([i \in 0..(width * height - 1) |->
            canvas.data[PixelIndex(x + (i % width), y + (i \div width),
                                   canvas.width)]])

\* ctx.putImageData(data, x, y) for a rectangle inside the canvas.
PutImageData(canvas, sub, x, y, width, height) ==
    Buffer(canvas.width, canvas.height,
        Table([i \in DOMAIN canvas.data |->
            LET px == i % canvas.width
                py == i \div canvas.width
            IN  IF px >= x /\ px < x + width /\ py >= y /\ py < y + height
                THEN sub[PixelIndex(px - x, py - y, width)]
                ELSE canvas.data[i]]))

\* applyContentAwareBlur (lines 750-789).
ApplyContentAwareBlur(canvas, x, y, width, height, intensity) ==
    LET data == GetImageData(canvas, x, y, width, height)
        newData ==
          Table(
            [i \in DOMAIN data |->
                LET px == i % width
                    py == i \div width
                IN  IF DetectLocalEdge(data, px, py, width, height)
                    THEN data[i]
                    ELSE WithAlphaOf(
                             GetAdaptiveBlurredPixel(data, px, py, width,
                                                     height, intensity),
                             data[i])])
    IN  PutImageData(canvas, newData, x, y, width, height)

\* The "validated" rectangle of lines 729-732.
BlurValidX(x, width, canvasWidth) == Max(0, Min(x, canvasWidth - width))
BlurValidWidth(width, canvasWidth, validX) == Min(width, canvasWidth - validX)

\* removeWatermarkByBlur (lines 715-747).  getImageData throws IndexSizeError
\* for a rectangle of zero width or height; the catch of line 741 swallows
\* it and the canvas is returned as it is.  Without a region and without
\* autoDetect nothing is done.
RemoveWatermarkByBlurRegion(canvas, options) ==
    LET r == options.watermarkRegion
        validX == BlurValidX(r.x, r.width, canvas.width)
        validY == BlurValidX(r.y, r.height, canvas.height)
        validWidth == BlurValidWidth(r.width, canvas.width, validX)
        validHeight == BlurValidWidth(r.height, canvas.height, validY)
    IN  IF validWidth = 0 \/ validHeight = 0 THEN canvas
        ELSE ApplyContentAwareBlur(canvas, validX, validY, validWidth,
                                   validHeight, options.blurIntensity)

(***************************************************************************)
(* Inpaint method with a manual region (imageUtils.ts 866-1092)            *)
(***************************************************************************)

\* createInpaintingMask (lines 959-978): mask[i] for every pixel index i.
CreateInpaintingMask(width, height, startX, startY, endX, endY) ==
    Table([i \in 0..(width * height - 1) |->
            \E px \in startX..(endX - 1), py \in startY..(endY - 1) :
                /\ px >= 0 /\ px < width /\ py >= 0 /\ py < height
                /\ i = PixelIndex(px, py, width)])

\* calculateTextureSimilarity (lines 1049-1092), times 10^4.  With
\* G = 3 * gray difference, magnitude = sqrt(Gx^2 + Gy^2) / 3, so
\* magnitude > 10 is Gx^2 + Gy^2 > 900; the sum of the magnitudes is kept in
\* thirtieths.
CalculateTextureSimilarity(data, x, y, width, height) ==
    LET cells == {d \in (-2..2) \X (-2..2) :
                    /\ x + d[1] >= 1 /\ x + d[1] < width - 1
                    /\ y + d[2] >= 1 /\ y + d[2] < height - 1}
        m2 == Table([d \in cells |->
                LET nx == x + d[1]
                    ny == y + d[2]
                    c == RgbSum(data[PixelIndex(nx, ny, width)])
                    gx == RgbSum(data[PixelIndex(nx + 1, ny, width)]) - c
                    gy == RgbSum(data[PixelIndex(nx, ny + 1, width)]) - c
                IN  gx * gx + gy * gy])
        gradient30 == SumOver(cells, [d \in cells |-> ISqrt(100 * m2[d])])
        edgeCount == Cardinality({d \in cells : m2[d] > 900})
        \* avgGradient / 50 = gradient30 / (30 * 25 * 50), in thousandths
        exponent == (4 * gradient30 + 75) \div 150
    IN  (ExpNeg(exponent) * (50 - edgeCount) + 25) \div 50 + 1000

\* 1 / (1 + distance) of line 1027 for squared distance d2, times 10^4.
DistanceWeight(d2) == (10000000 + 500) \div (1000 + ISqrt(d2 * 1000000))

\* smartInpaintPixel (lines 981-1046) with the mask test of line 999 left
\* out: every pixel of the buffer within the radius counts as valid.
SmartInpaintPixelUnmasked(data, x, y, width, height, radius, mask) ==
    LET valid == {d \in (-radius..radius) \X (-radius..radius) :
                    /\ x + d[1] >= 0 /\ x + d[1] < width
                    /\ y + d[2] >= 0 /\ y + d[2] < height
                    /\ d[1] * d[1] + d[2] * d[2] > 0
                    /\ d[1] * d[1] + d[2] * d[2] <= radius * radius}
        w == Table([d \in valid |->
                MulFixed(DistanceWeight(d[1] * d[1] + d[2] * d[2]),
                         CalculateTextureSimilarity(
                             data, x + d[1], y + d[2], width, height))])
        totalWeight == SumOver(valid, w)
        chan(c) == SumOver(valid,
                     [d \in valid |->
                        data[PixelIndex(x + d[1], y + d[2], width)][c] * w[d]])
    IN  IF valid = {} THEN <<128, 128, 128>>
        ELSE IF totalWeight > 0
        THEN <<MathRound(chan(1), totalWeight), MathRound(chan(2), totalWeight),
               MathRound(chan(3), totalWeight)>>
        ELSE <<128, 128, 128>>
\* smartInpaintPixel (lines 981-1046).
SmartInpaintPixel(data, x, y, width, height, radius, mask) ==
    LET valid == {d \in (-radius..radius) \X (-radius..radius) :
                    /\ x + d[1] >= 0 /\ x + d[1] < width
                    /\ y + d[2] >= 0 /\ y + d[2] < height
                    /\ ~mask[PixelIndex(x + d[1], y + d[2], width)]
                    /\ d[1] * d[1] + d[2] * d[2] > 0
                    /\ d[1] * d[1] + d[2] * d[2] <= radius * radius}
        w == Table([d \in valid |->
                MulFixed(DistanceWeight(d[1] * d[1] + d[2] * d[2]),
                         CalculateTextureSimilarity(
                             data, x + d[1], y + d[2], width, height))])
        totalWeight == SumOver(valid, w)
        chan(c) == SumOver(valid,
                     [d \in valid |->
                        data[PixelIndex(x + d[1], y + d[2], width)][c] * w[d]])
    IN  IF valid = {} THEN <<128, 128, 128>>
        ELSE IF totalWeight > 0
        THEN <<MathRound(chan(1), totalWeight), MathRound(chan(2), totalWeight),
               MathRound(chan(3), totalWeight)>>
        ELSE <<128, 128, 128>>

\* The pixels one pass of advancedInpainting visits (lines 936-937).
InpaintWindow(width, height, startX, startY, endX, endY, radius) ==
    {<<px, py>> \in (Max(0, startX - radius)..(Min(width, endX + radius) - 1))
                    \X (Max(0, startY - radius)..(Min(height, endY + radius) - 1)) :
        TRUE}

\* advancedInpainting (lines 917-956): iterations passes, each reading the
\* result of the one before; the mask is built once.
RECURSIVE InpaintPasses(_, _, _, _, _, _, _)
InpaintPasses(result, width, height, window, radius, mask, iter) ==
    IF iter <= 0 THEN result
    ELSE LET tempResult ==
              Table(
                [i \in DOMAIN result |->
                    IF <<i % width, i \div width>> \in window /\ mask[i]
                    THEN WithAlphaOf(
                             SmartInpaintPixel(result, i % width, i \div width,
                                               width, height, radius, mask),
                             result[i])
                    ELSE result[i]])
         IN  InpaintPasses(tempResult, width, height, window, radius, mask,
                           iter - 1)

AdvancedInpainting(data, width, height, startX, startY, endX, endY, radius, iterations) ==
    InpaintPasses(data, width, height,
                  InpaintWindow(width, height, startX, startY, endX, endY, radius),
                  radius,
                  CreateInpaintingMask(width, height, startX, startY, endX, endY),
                  iterations)

\* The clamped rectangle of lines 885-888.
InpaintStart(x) == Max(0, x)
\* The end of the rectangle without the clamp of lines 887-888.
InpaintEndUnclamped(x, size, limit) == x + size
InpaintEnd(x, size, limit) == Min(limit, x + size)

\* removeWatermarkByInpainting with a region (lines 881-904): the canvas
\* returned, the mask that was built, and every pixel coordinate the passes
\* and the copy loop of lines 894-902 formed a buffer index from.
RemoveWatermarkByInpaintingRegion(canvas, options) ==
    LET r == options.watermarkRegion
        width == canvas.width
        height == canvas.height
        startX == InpaintStart(r.x)
        startY == InpaintStart(r.y)
        endX == InpaintEnd(r.x, r.width, width)
        endY == InpaintEnd(r.y, r.height, height)
        processedData == AdvancedInpainting(canvas.data, width, height, startX,
                             startY, endX, endY, options.inpaintRadius,
                             options.iterations)
        copied == (startX..(endX - 1)) \X (startY..(endY - 1))
        mask == CreateInpaintingMask(width, height, startX, startY, endX, endY)
    IN  [status |-> "returned",
         canvas |->
            Buffer(width, height,
                Table([i \in DOMAIN canvas.data |->
                    IF <<i % width, i \div width>> \in copied
                    THEN WithAlphaOf(processedData[i], canvas.data[i])
                    ELSE canvas.data[i]])),
         mask |-> {i \in DOMAIN mask : mask[i]},
         touched |-> copied \cup
                     (IF options.iterations >= 1
                      THEN InpaintWindow(width, height, startX, startY, endX,
                                         endY, options.inpaintRadius)
                      ELSE {}),
         donor |-> [copies |-> FALSE, x |-> 0, y |-> 0], detects |-> FALSE,
     detected |-> <<>>]

(***************************************************************************)
(* Region detection (imageUtils.ts 1368-1464): its scan loops.             *)
(***************************************************************************)

\* blockSize and stepSize of lines 1377-1378.
DetectBlockSize(width, height) == Min(64, Min(width, height) \div 8)
DetectStepSize(width, height) == DetectBlockSize(width, height) \div 2

\* The loop of line 1381 is "for (y = 0; y < height - blockSize; y +=
\* stepSize)": with stepSize = 0 and height > blockSize, y stays 0 and the
\* loop (or the loop of line 1382 inside it) never ends.  No exception is
\* raised, so the catch of line 1460 does not end it either.
DetectionDiverges(width, height) ==
    DetectStepSize(width, height) = 0 /\ 0 < height - DetectBlockSize(width, height)

(***************************************************************************)
(* removeWatermark (imageUtils.ts 685-712).  On buffers with a side below  *)
(* 16 pixels every path through detectWatermarkRegions diverges.           *)
(***************************************************************************)

\* No rectangle was copied from.
NoDonor == [copies |-> FALSE, x |-> 0, y |-> 0]

NoTrace == [mask |-> {}, touched |-> {}, donor |-> NoDonor, detects |-> FALSE,
     detected |-> <<>>]

Returned(canvas) ==
    [status |-> "returned", canvas |-> canvas, mask |-> {}, touched |-> {},
     donor |-> NoDonor, detects |-> FALSE,
     detected |-> <<>>]

Diverged(canvas) ==
    [status |-> "diverged", canvas |-> canvas, mask |-> {}, touched |-> {},
     donor |-> NoDonor, detects |-> FALSE,
     detected |-> <<>>]

\* History: the call went through detectWatermarkRegions.
AfterDetection(r) == [r EXCEPT !.detects = TRUE]

\* History: the regions detectWatermarkRegions returned to the call.
WithDetected(r, detected) == [r EXCEPT !.detected = detected]

\* drawImage composes what it draws over what the canvas holds
\* ('source-over'): an opaque source pixel replaces the canvas pixel, a
\* transparent one leaves it, one in between is blended.  The blend is
\* rounded to the nearest byte here; browsers differ by one in the last bit.
SourceOverAlpha(src, dst) == src[4] + MathRound(dst[4] * (255 - src[4]), 255)

SourceOverChannel(cs, cd, src, dst, outAlpha) ==
    IF outAlpha = 0 THEN 0
    ELSE ClampByte(MathRound(cs * src[4] * 255 + cd * dst[4] * (255 - src[4]),
                             outAlpha * 255))

SourceOver(src, dst) ==
    IF src[4] = 255 THEN src
    ELSE IF src[4] = 0 THEN dst
    ELSE <<SourceOverChannel(src[1], dst[1], src, dst, SourceOverAlpha(src, dst)),
           SourceOverChannel(src[2], dst[2], src, dst, SourceOverAlpha(src, dst)),
           SourceOverChannel(src[3], dst[3], src, dst, SourceOverAlpha(src, dst)),
           SourceOverAlpha(src, dst)>>

\* ctx.drawImage(source, sx, sy, w, h, dx, dy, w, h) on canvas, for w, h > 0:
\* the part of the source rectangle that lies in the source is drawn, pixel
\* for pixel, on the part of the canvas it falls on.
DrawImageRect(canvas, source, sx, sy, w, h, dx, dy) ==
    Buffer(canvas.width, canvas.height,
        Table([i \in DOMAIN canvas.data |->
            LET px == (i % canvas.width) - dx + sx
                py == (i \div canvas.width) - dy + sy
            IN  IF /\ px >= sx /\ px < sx + w /\ py >= sy /\ py < sy + h
                   /\ px >= 0 /\ px < source.width
                   /\ py >= 0 /\ py < source.height
                THEN SourceOver(source.data[PixelIndex(px, py, source.width)],
                                canvas.data[i])
                ELSE canvas.data[i]]))

\* Lines 1181 and 1188: the far side of the region when its origin is
\* greater than its size, the near side otherwise.
CloneSource(origin, size) ==
    IF origin > size THEN origin - size - 10 ELSE origin + size + 10

\* Lines 1183 and 1189.
CloneSourceFits(source, size, limit) == source >= 0 /\ source + size < limit

\* The rectangle removeWatermarkByCloning copies from (lines 1181-1192).
CloneDonor(canvas, r) ==
    IF CloneSourceFits(CloneSource(r.y, r.height), r.height, canvas.height)
    THEN [copies |-> TRUE, x |-> r.x, y |-> CloneSource(r.y, r.height)]
    ELSE IF CloneSourceFits(CloneSource(r.x, r.width), r.width, canvas.width)
    THEN [copies |-> TRUE, x |-> CloneSource(r.x, r.width), y |-> r.y]
    ELSE NoDonor

ClonedFrom(canvas, r, donor) ==
    [status |-> "returned",
     canvas |-> IF donor.copies
                THEN DrawImageRect(canvas, canvas, donor.x, donor.y, r.width,
                                   r.height, r.x, r.y)
                ELSE canvas,
     mask |-> {}, touched |-> {}, donor |-> donor, detects |-> FALSE,
     detected |-> <<>>]

\* removeWatermarkByCloning (lines 1168-1196), for regions of positive size.
RemoveWatermarkByCloning(canvas, options) ==
    IF options.hasRegion
    THEN ClonedFrom(canvas, options.watermarkRegion,
                    CloneDonor(canvas, options.watermarkRegion))
    ELSE Returned(canvas)

\* The origins a scan loop "for (v = 0; v < limit; v += step)" would visit,
\* counted: blocks that start inside the buffer and may end outside it.
ScanCountToLimit(limit, blockSize, step) ==
    IF limit <= 0 THEN 0 ELSE (limit - 1) \div step + 1
\* The origins a scan loop "for (v = 0; v < limit - blockSize; v += step)"
\* visits, counted (lines 1381-1382), for step > 0.
ScanCount(limit, blockSize, step) ==
    IF limit - blockSize <= 0 THEN 0 ELSE (limit - blockSize - 1) \div step + 1

\* Lines 1388-1389, 1421-1422: every stride-th offset inside a block.
SampleOffsets(size, stride) == {k \in 0..(size - 1) : k % stride = 0}

\* Lines 1383-1410: the block at (x, y) is a candidate when more than a
\* fifth of its sampled pixels have an alpha in 51..199 and the mean sampled
\* alpha lies strictly between 50 and 200.
BlockIsCandidate(data, width, height, x, y, blockSize) ==
    LET pts == {q \in SampleOffsets(blockSize, 4) \X SampleOffsets(blockSize, 4) :
                    x + q[1] < width /\ y + q[2] < height}
        alphas == [q \in pts |-> data[PixelIndex(x + q[1], y + q[2], width)][4]]
        totalPixels == Cardinality(pts)
        transparentPixels ==
            Cardinality({q \in pts : alphas[q] > 50 /\ alphas[q] < 200})
        alphaSum == SumOver(pts, alphas)
    IN  /\ totalPixels > 0
        /\ 5 * transparentPixels > totalPixels
        /\ alphaSum > 50 * totalPixels
        /\ alphaSum < 200 * totalPixels

\* Strategy 1 (lines 1380-1411): the candidates in the order of the scan,
\* rows first.
TransparencyCandidates(data, width, height) ==
    LET blockSize == DetectBlockSize(width, height)
        stepSize == DetectStepSize(width, height)
        nx == ScanCount(width, blockSize, stepSize)
        ny == ScanCount(height, blockSize, stepSize)
        blocks == [k \in 1..(nx * ny) |->
                    Rect(((k - 1) % nx) * stepSize, ((k - 1) \div nx) * stepSize,
                         blockSize, blockSize)]
    IN  SelectSeq(blocks,
            LAMBDA r : BlockIsCandidate(data, width, height, r.x, r.y, blockSize))

\* Lines 1415-1422.
CornerSize(width, height) == Min(100, Min(width, height) \div 4)

Corners(width, height) ==
    LET cornerSize == CornerSize(width, height)
    IN  <<Rect(0, 0, cornerSize, cornerSize),
          Rect(width - cornerSize, 0, cornerSize, cornerSize),
          Rect(0, height - cornerSize, cornerSize, cornerSize),
          Rect(width - cornerSize, height - cornerSize, cornerSize, cornerSize),
          Rect((width - cornerSize) \div 2, (height - cornerSize) \div 2,
               cornerSize, cornerSize)>>

\* Lines 1425-1453: few distinct colours, at 32 levels a channel, among the
\* pixels sampled and a mean brightness above 180 or below 80.
CornerIsCandidate(data, width, height, corner) ==
    LET pts == SampleOffsets(corner.width, 8) \X SampleOffsets(corner.width, 8)
        pixels == [q \in pts |->
                    data[PixelIndex(corner.x + q[1], corner.y + q[2], width)]]
        pixelCount == Cardinality(pts)
        uniqueColors ==
            Cardinality({<<pixels[q][1] \div 32, pixels[q][2] \div 32,
                           pixels[q][3] \div 32>> : q \in pts})
        brightness == SumOver(pts, [q \in pts |-> RgbSum(pixels[q])])
    IN  /\ corner.x >= 0 /\ corner.y >= 0
        /\ corner.x + corner.width <= width
        /\ corner.y + corner.width <= height
        /\ pixelCount > 0
        /\ 10 * uniqueColors < 3 * pixelCount
        /\ (brightness > 3 * 180 * pixelCount \/ brightness < 3 * 80 * pixelCount)

\* Strategy 2 (lines 1413-1454).
PatternCandidates(data, width, height) ==
    SelectSeq(Corners(width, height),
        LAMBDA corner : CornerIsCandidate(data, width, height, corner))

\* detectWatermarkRegions (lines 1368-1464) where its scan loops end.
DetectWatermarkRegions(data, width, height) ==
    MergeOverlappingRegions(
        TransparencyCandidates(data, width, height)
            \o PatternCandidates(data, width, height))

\* One output pixel of applySimpleBlur (lines 1337-1361): the mean of each
\* of the four bytes over the window, stored into a Uint8ClampedArray.
SimpleBlurredPixel(data, window, width) ==
    <<ToUint8Clamped(SumOver(window,
            [q \in window |-> data[PixelIndex(q[1], q[2], width)][1]]),
          Cardinality(window)),
      ToUint8Clamped(SumOver(window,
            [q \in window |-> data[PixelIndex(q[1], q[2], width)][2]]),
          Cardinality(window)),
      ToUint8Clamped(SumOver(window,
            [q \in window |-> data[PixelIndex(q[1], q[2], width)][3]]),
          Cardinality(window)),
      ToUint8Clamped(SumOver(window,
            [q \in window |-> data[PixelIndex(q[1], q[2], width)][4]]),
          Cardinality(window))>>

\* applySimpleBlur (lines 1329-1365).
ApplySimpleBlur(data, width, height, radius) ==
    Table([i \in DOMAIN data |->
        SimpleBlurredPixel(data,
            {q \in (0..(width - 1)) \X (0..(height - 1)) :
                /\ Abs(q[1] - (i % width)) <= radius
                /\ Abs(q[2] - (i \div width)) <= radius},
            width)])

\* A new canvas: transparent black.
BlankCanvas(width, height) ==
    Buffer(width, height, [i \in 0..(width * height - 1) |-> <<0, 0, 0, 0>>])

\* Lines 1304-1317: the region is copied to a canvas of its own, blurred
\* there and drawn back.
BlurOnTempCanvas(canvas, validX, validY, validWidth, validHeight, blurIntensity) ==
    DrawImageRect(canvas,
        Buffer(validWidth, validHeight,
            ApplySimpleBlur(
                DrawImageRect(BlankCanvas(validWidth, validHeight), canvas,
                              validX, validY, validWidth, validHeight, 0, 0).data,
                validWidth, validHeight, blurIntensity)),
        0, 0, validWidth, validHeight, validX, validY)

\* Lines 1296-1318 for one region.
BlurDetectedRegion(canvas, region, blurIntensity) ==
    LET validX == BlurValidX(region.x, region.width, canvas.width)
        validY == BlurValidX(region.y, region.height, canvas.height)
        validWidth == BlurValidWidth(region.width, canvas.width, validX)
        validHeight == BlurValidWidth(region.height, canvas.height, validY)
    IN  IF validWidth > 0 /\ validHeight > 0
        THEN BlurOnTempCanvas(canvas, validX, validY, validWidth, validHeight,
                              blurIntensity)
        ELSE canvas

RECURSIVE BlurDetectedRegions(_, _, _, _)
BlurDetectedRegions(canvas, detected, k, blurIntensity) ==
    IF k > Len(detected) THEN canvas
    ELSE BlurDetectedRegions(
             BlurDetectedRegion(canvas, detected[k], blurIntensity),
             detected, k + 1, blurIntensity)

\* autoDetectAndBlurWatermarks (lines 1279-1326) where detection returns.
AutoDetectAndBlurWatermarks(canvas, blurIntensity) ==
    BlurDetectedRegions(canvas,
        DetectWatermarkRegions(canvas.data, canvas.width, canvas.height),
        1, blurIntensity)

\* Lines 1106-1129 for one region: the colour bytes of the inpainted buffer
\* replace those of data inside the region.
InpaintDetectedRegion(data, processedData, width, height, region) ==
    Table([i \in DOMAIN data |->
        IF /\ (i % width) >= region.x /\ (i % width) < region.x + region.width
           /\ (i \div width) >= region.y
           /\ (i \div width) < region.y + region.height
        THEN WithAlphaOf(processedData[i], data[i])
        ELSE data[i]])

RECURSIVE InpaintDetectedRegions(_, _, _, _, _, _, _)
InpaintDetectedRegions(data, width, height, detected, k, radius, iterations) ==
    IF k > Len(detected) THEN data
    ELSE InpaintDetectedRegions(
             InpaintDetectedRegion(data,
                 AdvancedInpainting(data, width, height, detected[k].x,
                     detected[k].y, detected[k].x + detected[k].width,
                     detected[k].y + detected[k].height, radius, iterations),
                 width, height, detected[k]),
             width, height, detected, k + 1, radius, iterations)

\* autoInpaintWatermarks (lines 1095-1134) where detection returns.
AutoInpaintWatermarks(canvas, radius, iterations) ==
    Buffer(canvas.width, canvas.height,
        InpaintDetectedRegions(canvas.data, canvas.width, canvas.height,
            DetectWatermarkRegions(canvas.data, canvas.width, canvas.height),
            1, radius, iterations))

\* removeWatermarkByBlur (lines 715-747).
RemoveWatermarkByBlur(canvas, options) ==
    IF options.hasRegion THEN Returned(RemoveWatermarkByBlurRegion(canvas, options))
    ELSE IF ~options.autoDetect THEN Returned(canvas)
    ELSE IF DetectionDiverges(canvas.width, canvas.height)
    THEN AfterDetection(Diverged(canvas))
    ELSE AfterDetection(
             WithDetected(
                 Returned(AutoDetectAndBlurWatermarks(canvas, options.blurIntensity)),
                 DetectWatermarkRegions(canvas.data, canvas.width, canvas.height)))

\* removeWatermarkByInpainting (lines 866-914): without a region it goes to
\* autoInpaintWatermarks (line 907), whatever autoDetect says.
RemoveWatermarkByInpainting(canvas, options) ==
    IF options.hasRegion
    THEN RemoveWatermarkByInpaintingRegion(canvas, options)
    ELSE IF DetectionDiverges(canvas.width, canvas.height)
    THEN AfterDetection(Diverged(canvas))
    ELSE AfterDetection(
             WithDetected(
                 Returned(AutoInpaintWatermarks(canvas, options.inpaintRadius,
                                                options.iterations)),
                 DetectWatermarkRegions(canvas.data, canvas.width, canvas.height)))

\* A placeholder that hands the canvas back as it came, in place of the
\* call of line 1275.
RemoveWatermarkByAIUntouched(canvas, options) == Returned(canvas)
\* removeWatermarkByAI (lines 1264-1276).
RemoveWatermarkByAI(canvas, options) == RemoveWatermarkByInpainting(canvas, options)

\* removeWatermark (lines 685-712).
RemoveWatermark(img, options) ==
    LET canvas == DrawImageToNewCanvas(img)
    IN  CASE options.method = "blur" -> RemoveWatermarkByBlur(canvas, options)
          [] options.method = "inpaint" -> RemoveWatermarkByInpainting(canvas, options)
          [] options.method = "clone" -> RemoveWatermarkByCloning(canvas, options)
          [] options.method = "frequency" ->
                Returned(RemoveWatermarkByFrequencyAnalysis(canvas, options))
          [] options.method = "ai" -> RemoveWatermarkByAI(canvas, options)
          [] OTHER -> Returned(canvas)

(***************************************************************************)
(* The inputs explored.                                                    *)
(***************************************************************************)

\* Bounds: the largest buffer side and the largest iteration count.
MaxSide == 4
MaxIterations == 2

ImageSizes == {<<1, 1>>, <<3, 3>>, <<MaxSide, 3>>}

\* Three pixel values: the first two have the same brightness and differ in
\* colour and alpha, the third is far brighter (an edge for the blur's
\* threshold of 30).
Palette == <<(<<100, 100, 100, 255>>), (<<130, 100, 70, 120>>),
             (<<220, 200, 240, 255>>)>>

\* Buffers: pixel (x, y) holds Palette[(a*x + b*y + c) % m], for the
\* patterns <<a, b, c, m>> below (uniform, stripes and diagonals of all three
\* values, stripes and checks of the two values of equal brightness).
ImagePatterns == {<<0, 0, 0, 3>>, <<0, 0, 1, 3>>, <<1, 0, 0, 3>>, <<0, 1, 1, 3>>,
                  <<1, 1, 0, 3>>, <<1, 1, 2, 3>>, <<1, 0, 0, 2>>, <<1, 1, 1, 2>>}

PatternImage(w, h, pat) ==
    Buffer(w, h,
        Table([i \in 0..(w * h - 1) |->
            Palette[((pat[1] * (i % w) + pat[2] * (i \div w) + pat[3])
                        % pat[4]) + 1]]))

ModelImages == {PatternImage(sz[1], sz[2], pat) : sz \in ImageSizes,
                                                  pat \in ImagePatterns}

\* Manual regions: inside the buffer, across its edge, and fully outside it
\* on either side.
ManualRegionXs == {-4, 0, 1, 6}
ManualRegionYs == {-4, 0, 6}
ManualRegionSides == {2, 3}
ManualRegions ==
    {Rect(x, y, n, n) : x \in ManualRegionXs, y \in ManualRegionYs,
                        n \in ManualRegionSides}

NoRegion == Rect(0, 0, 0, 0)

\* WatermarkRemovalOptions with the defaults of lines 722 and 879 filled in
\* for the fields a method does not read.
WmOptions(method, hasRegion, region, blurIntensity, inpaintRadius, iterations, autoDetect) ==
    [method |-> method, hasRegion |-> hasRegion, watermarkRegion |-> region,
     blurIntensity |-> blurIntensity, inpaintRadius |-> inpaintRadius,
     iterations |-> iterations, autoDetect |-> autoDetect]

BlurIntensities == {3, 10}
InpaintRadii == {1, 2}

\* The WatermarkRemovalMethod values of types/index.ts line 57; "erase" in
\* the options below is a string that is none of them.
KnownWatermarkMethods == {"blur", "inpaint", "clone", "frequency", "ai"}

WatermarkOptionSets ==
    {WmOptions("blur", TRUE, r, b, 5, 3, FALSE) :
        r \in ManualRegions, b \in BlurIntensities}
    \cup {WmOptions("blur", FALSE, NoRegion, 10, 5, 3, a) : a \in BOOLEAN}
    \cup {WmOptions(m, TRUE, r, 10, rad, it, FALSE) :
            m \in {"inpaint", "ai"}, r \in ManualRegions, rad \in InpaintRadii,
            it \in 1..MaxIterations}
    \cup {WmOptions(m, FALSE, NoRegion, 10, 5, 3, a) :
            m \in {"inpaint", "ai", "frequency"}, a \in BOOLEAN}
    \cup {WmOptions("erase", TRUE, r, 10, 5, 3, FALSE) : r \in ManualRegions}
    \cup {WmOptions("erase", FALSE, NoRegion, 10, 5, 3, a) : a \in BOOLEAN}

\* The clone method is explored on buffers that leave room for a rectangle
\* and a donor 10 pixels away from it, above or below, left or right, with
\* regions at the borders and in the middle, inside and partly outside.
CloneSizes == {<<2, 24>>, <<24, 2>>, <<2, 12>>, <<12, 12>>}
CloneImages ==
    {PatternImage(sz[1], sz[2], pat) :
        sz \in CloneSizes, pat \in {<<1, 1, 0, 3>>, <<1, 0, 0, 2>>}}
CloneOrigins == {-1, 0, 1, 11, 12, 22}
CloneRegionSides == {1, 2}
CloneRegions ==
    {Rect(x, y, w, h) : x \in CloneOrigins, y \in CloneOrigins,
                        w \in CloneRegionSides, h \in CloneRegionSides}
CloneOptionSets ==
    {WmOptions("clone", TRUE, r, 10, 5, 3, FALSE) : r \in CloneRegions}
    \cup {WmOptions("clone", FALSE, NoRegion, 10, 5, 3, a) : a \in BOOLEAN}

\* Region detection returns on buffers whose sides are 16 pixels or more.
\* The buffers explored: opaque checks of the first and third palette
\* values, with the semi-transparent second value at the given spots.
SpotImage(w, h, spots) ==
    Buffer(w, h,
        Table([i \in 0..(w * h - 1) |->
            IF <<i % w, i \div w>> \in spots THEN Palette[2]
            ELSE IF ((i % w) + (i \div w)) % 2 = 0 THEN Palette[1]
            ELSE Palette[3]]))
\* A buffer of the bright third palette value with the semi-transparent
\* second one at the given spots: at 36 x 36 the corner regions of strategy 2
\* are 9 pixels wide and take four samples each.
BrightImage(w, h, spots) ==
    Buffer(w, h,
        Table([i \in 0..(w * h - 1) |->
            IF <<i % w, i \div w>> \in spots THEN Palette[2] ELSE Palette[3]]))
DetectImages ==
    {SpotImage(16, 16, {}), SpotImage(16, 16, {<<5, 5>>}),
     SpotImage(16, 16, {<<5, 5>>, <<6, 6>>}),
     SpotImage(16, 16, {<<15, 5>>, <<5, 15>>, <<13, 13>>}),
     SpotImage(18, 16, {<<5, 5>>, <<6, 5>>, <<12, 3>>}),
     BrightImage(36, 36, {<<6, 6>>})}
DetectOptionSets ==
    {WmOptions("blur", FALSE, NoRegion, b, 5, 3, a) :
        b \in {1, 10}, a \in BOOLEAN}
    \cup {WmOptions(m, FALSE, NoRegion, 10, rad, 1, a) :
            m \in {"inpaint", "ai"}, rad \in InpaintRadii, a \in BOOLEAN}
    \cup {WmOptions("clone", FALSE, NoRegion, 10, 5, 3, a) : a \in BOOLEAN}
    \cup {WmOptions(m, TRUE, r, 10, 1, 1, TRUE) :
            m \in {"blur", "inpaint", "clone"},
            r \in {Rect(1, 1, 3, 3), Rect(5, 5, 2, 2)}}

(***************************************************************************)
(* removeBackground (imageUtils.ts 104-171)                                *)
(***************************************************************************)

\* The mask loop with the test of line 151 turned round: alpha becomes 0
\* where the segmentation says person.
ApplySegmentationMaskInverted(img, segmentation) ==
    Buffer(img.width, img.height,
        Table([i \in DOMAIN img.data |->
            IF segmentation[i] # 0
            THEN <<img.data[i][1], img.data[i][2], img.data[i][3], 0>>
            ELSE img.data[i]]))
\* Lines 148-154: alpha becomes 0 where the segmentation says background.
ApplySegmentationMask(img, segmentation) ==
    Buffer(img.width, img.height,
        Table([i \in DOMAIN img.data |->
            IF segmentation[i] = 0
            THEN <<img.data[i][1], img.data[i][2], img.data[i][3], 0>>
            ELSE img.data[i]]))

RemoveBackgroundFailed(error) ==
    [error |-> error, hasCanvas |-> FALSE, canvas |-> Buffer(0, 0, <<>>)]

\* A removeBackground that skips the work and hands back the image as it
\* came, in place of lines 113-170.
RemoveBackgroundSkipping(model, img, segmentation) ==
    [error |-> "none", hasCanvas |-> TRUE, canvas |-> img]
\* removeBackground: segmentation.throws when segmentPerson rejects,
\* otherwise segmentation.data is the per-pixel 0/1 data it resolves with.
RemoveBackground(model, img, segmentation) ==
    IF model = "null"
    THEN RemoveBackgroundFailed("BodyPix model not initialized")
    ELSE IF segmentation.throws
    THEN RemoveBackgroundFailed("segmentPerson error")
    ELSE [error |-> "none", hasCanvas |-> TRUE,
          canvas |-> ApplySegmentationMask(img, segmentation.data)]

\* The images and segmentations removeBackground is called with.
SegImages == {PatternImage(2, 1, <<1, 0, 0, 2>>)}
Segmentations == [throws : BOOLEAN, data : [0..1 -> {0, 1}]]

NoCall ==
    [called |-> FALSE, loadLog |-> <<>>, segmentation |-> [throws |-> FALSE],
     image |-> Buffer(0, 0, <<>>),
     result |-> RemoveBackgroundFailed("none")]

(***************************************************************************)
(* removeBackgroundAdvanced (imageUtils.ts 245-454).  colorTolerance,      *)
(* edgeThreshold and smoothing are integers (the sliders of                *)
(* ImageProcessor.tsx 585-615 store parseInt values); comparisons of       *)
(* square roots are made on the squares.                                   *)
(***************************************************************************)

\* The loops of lines 330 and 336 add Math.floor(side / 10) to i: with a
\* side of 1..9 pixels i stays 0 and the loop never ends.
SampleStride(side) == side \div 10

DetectBackgroundColorDiverges(width, height) ==
    \/ (width > 0 /\ SampleStride(width) = 0)
    \/ (height > 0 /\ SampleStride(height) = 0)

Rgb(p) == <<p[1], p[2], p[3]>>

\* Lines 330-334: the top and bottom rows, two samples for each i.
HorizontalSamples(data, width, height) ==
    LET step == SampleStride(width)
        n == IF width = 0 THEN 0 ELSE (width - 1) \div step + 1
    IN  [k \in 1..(2 * n) |->
            LET i == ((k - 1) \div 2) * step
            IN  IF k % 2 = 1 THEN Rgb(data[i])
                ELSE Rgb(data[(height - 1) * width + i])]

\* Lines 336-341: the left and right columns, two samples for each i.
VerticalSamples(data, width, height) ==
    LET step == SampleStride(height)
        n == IF height = 0 THEN 0 ELSE (height - 1) \div step + 1
    IN  [k \in 1..(2 * n) |->
            LET i == ((k - 1) \div 2) * step
            IN  IF k % 2 = 1 THEN Rgb(data[i * width])
                ELSE Rgb(data[i * width + width - 1])]

\* Line 347: the key of a sample in colorCounts.
ColorKey(c) == <<c[1] \div 10, c[2] \div 10, c[3] \div 10>>

\* Lines 344-366: a Map keeps its keys in insertion order and each entry
\* keeps the first colour that made it; the first entry whose count beats
\* every earlier one's and is not beaten later is returned.
MostCommonColor(samples, keys) ==
    LET n == Len(samples)
        count == Table([k \in 1..n |->
                    Cardinality({j \in 1..n : keys[j] = keys[k]})])
        firsts == {k \in 1..n : \A j \in 1..(k - 1) : keys[j] # keys[k]}
        best == CHOOSE k \in firsts :
                    \A j \in firsts :
                        \/ count[j] < count[k]
                        \/ (count[j] = count[k] /\ j >= k)
    IN  samples[best]

SamplesOf(data, width, height) ==
    Table(HorizontalSamples(data, width, height)
            \o VerticalSamples(data, width, height))

DetectBackgroundColorOf(samples) ==
    MostCommonColor(samples, Table([k \in DOMAIN samples |-> ColorKey(samples[k])]))

\* detectBackgroundColor (lines 317-367) where it returns.
DetectBackgroundColor(data, width, height) ==
    DetectBackgroundColorOf(SamplesOf(data, width, height))

\* hexToRgb (lines 447-454).  A colour string is [hash, digits]: whether it
\* starts with '#', and the values 0..15 of the characters that follow, 16
\* for a character that is no hexadecimal digit.
HexToRgb(hex) ==
    IF Len(hex.digits) = 6 /\ \A k \in 1..6 : hex.digits[k] \in 0..15
    THEN [ok |-> TRUE,
          rgb |-> <<16 * hex.digits[1] + hex.digits[2],
                    16 * hex.digits[3] + hex.digits[4],
                    16 * hex.digits[5] + hex.digits[6]>>]
    ELSE [ok |-> FALSE, rgb |-> <<0, 0, 0>>]

\* Line 281: hexToRgb(backgroundColor) || [255, 255, 255].
FixedBackgroundColor(hex) ==
    LET parsed == HexToRgb(hex)
    IN  IF parsed.ok THEN parsed.rgb ELSE <<255, 255, 255>>

\* getGray (lines 410-413) times 3.
GraySum(data, x, y, width) == RgbSum(data[PixelIndex(x, y, width)])

\* Lines 385-391, times 3.
SobelX(data, x, y, width) ==
    - GraySum(data, x - 1, y - 1, width) + GraySum(data, x + 1, y - 1, width)
    - 2 * GraySum(data, x - 1, y, width) + 2 * GraySum(data, x + 1, y, width)
    - GraySum(data, x - 1, y + 1, width) + GraySum(data, x + 1, y + 1, width)

\* Lines 394-400, times 3.
SobelY(data, x, y, width) ==
    - GraySum(data, x - 1, y - 1, width) - 2 * GraySum(data, x, y - 1, width)
    - GraySum(data, x + 1, y - 1, width) + GraySum(data, x - 1, y + 1, width)
    + 2 * GraySum(data, x, y + 1, width) + GraySum(data, x + 1, y + 1, width)

\* Lines 402-403: Math.sqrt(gx * gx + gy * gy) > threshold.
IsEdge(gx3, gy3, threshold) ==
    threshold < 0 \/ gx3 * gx3 + gy3 * gy3 > 9 * threshold * threshold

\* detectEdges (lines 370-408): false on the border rows and columns.
DetectEdges(data, width, height, threshold) ==
    Table([i \in DOMAIN data |->
        LET x == i % width
            y == i \div width
        IN  IF x >= 1 /\ x < width - 1 /\ y >= 1 /\ y < height - 1
            THEN IsEdge(SobelX(data, x, y, width), SobelY(data, x, y, width),
                        threshold)
            ELSE FALSE])

\* Lines 295-299, squared.
ColorDistanceSquared(p, bgColor) ==
    (p[1] - bgColor[1]) * (p[1] - bgColor[1])
    + (p[2] - bgColor[2]) * (p[2] - bgColor[2])
    + (p[3] - bgColor[3]) * (p[3] - bgColor[3])

\* Line 302, first conjunct: colorDistance < colorTolerance.
SimilarToBackground(p, bgColor, colorTolerance) ==
    colorTolerance > 0
    /\ ColorDistanceSquared(p, bgColor) < colorTolerance * colorTolerance

\* Lines 288-305 with the edge map left unread: every pixel similar to the
\* background is cleared.
ClearBackgroundIgnoringEdges(data, bgColor, edges, colorTolerance) ==
    Table([i \in DOMAIN data |->
        IF SimilarToBackground(data[i], bgColor, colorTolerance)
        THEN <<data[i][1], data[i][2], data[i][3], 0>>
        ELSE data[i]])
\* Lines 288-305.
ClearBackground(data, bgColor, edges, colorTolerance) ==
    Table([i \in DOMAIN data |->
        IF SimilarToBackground(data[i], bgColor, colorTolerance) /\ ~edges[i]
        THEN <<data[i][1], data[i][2], data[i][3], 0>>
        ELSE data[i]])

\* Lines 426-441 for one pixel: the mean of the alpha bytes of the window
\* that lie in the image, stored into the Uint8ClampedArray.
SmoothedAlpha(original, width, height, radius, x, y) ==
    LET window == {q \in ((x - radius)..(x + radius)) \X ((y - radius)..(y + radius)) :
                      q[1] >= 0 /\ q[1] < width /\ q[2] >= 0 /\ q[2] < height}
        alphas == [q \in window |-> original[PixelIndex(q[1], q[2], width)][4]]
    IN  ToUint8Clamped(SumOver(window, alphas), Cardinality(window))

\* applySmoothingToAlpha (lines 416-444).
ApplySmoothingToAlpha(original, width, height, radius) ==
    Table([i \in DOMAIN original |->
        <<original[i][1], original[i][2], original[i][3],
          SmoothedAlpha(original, width, height, radius, i % width, i \div width)>>])

\* Lines 307-310.
SmoothIfAsked(data, width, height, smoothing) ==
    IF smoothing > 1 THEN ApplySmoothingToAlpha(data, width, height, smoothing)
    ELSE data

\* How a call ended, the canvas it returned and the bgColor of lines 277-282
\* it worked with.
AdvancedReturned(canvas, bgColor) ==
    [status |-> "returned", canvas |-> canvas, bgColor |-> bgColor]
AdvancedDiverged ==
    [status |-> "diverges", canvas |-> Buffer(0, 0, <<>>), bgColor |-> <<0, 0, 0>>]
AdvancedPending ==
    [status |-> "pending", canvas |-> Buffer(0, 0, <<>>), bgColor |-> <<0, 0, 0>>]

\* Lines 284-313 once the background colour is known.
RemoveWithBackgroundColor(canvas, bgColor, options) ==
    AdvancedReturned(Buffer(canvas.width, canvas.height,
        SmoothIfAsked(
            ClearBackground(canvas.data, bgColor,
                DetectEdges(canvas.data, canvas.width, canvas.height,
                            options.edgeThreshold),
                options.colorTolerance),
            canvas.width, canvas.height, options.smoothing)),
        bgColor)

\* removeBackgroundAdvanced (lines 245-314) on the canvas of lines 261-272.
RemoveBackgroundAdvancedOn(canvas, options) ==
    IF options.backgroundColor.auto
    THEN IF DetectBackgroundColorDiverges(canvas.width, canvas.height)
         THEN AdvancedDiverged
         ELSE RemoveWithBackgroundColor(canvas,
                DetectBackgroundColor(canvas.data, canvas.width, canvas.height),
                options)
    ELSE RemoveWithBackgroundColor(canvas,
            FixedBackgroundColor(options.backgroundColor.hex), options)

RemoveBackgroundAdvanced(img, options) ==
    RemoveBackgroundAdvancedOn(DrawImageToNewCanvas(img), options)

\* The options of lines 254-259 with their defaults.
DefaultColorTolerance == 30
DefaultEdgeThreshold == 50
DefaultSmoothing == 1
AutoBackground == [auto |-> TRUE, hex |-> [hash |-> FALSE, digits |-> <<>>]]
HexBackground(hash, digits) ==
    [auto |-> FALSE, hex |-> [hash |-> hash, digits |-> digits]]
AdvancedOptions(colorTolerance, edgeThreshold, smoothing, backgroundColor) ==
    [colorTolerance |-> colorTolerance, edgeThreshold |-> edgeThreshold,
     smoothing |-> smoothing, backgroundColor |-> backgroundColor]

\* The images explored: a background colour with a block of a second
\* colour from (3, 3) to (6, 6) where the image reaches that far; the two
\* colours equal on the uniform images.  Sides below and from 10 pixels.
HeuristicSizes == {<<3, 3>>, <<10, 10>>, <<12, 10>>}
HeuristicColors ==
    {<<255, 0, 0, 255>>, <<100, 100, 100, 255>>, <<105, 100, 100, 255>>,
     <<220, 200, 240, 120>>}
BlockImage(w, h, background, block) ==
    Buffer(w, h,
        Table([i \in 0..(w * h - 1) |->
            IF (i % w) \in 3..6 /\ (i \div w) \in 3..6 THEN block
            ELSE background]))
\* Images of vertical stripes: column x has the colour colours[stripes[x + 1]].
\* On a 10 x 10 image detectBackgroundColor takes 12 samples from each of the
\* columns 0 and 9 and 2 from each column between.
StripeImage(w, h, colours, stripes) ==
    Buffer(w, h, Table([i \in 0..(w * h - 1) |-> colours[stripes[(i % w) + 1]]]))
\* Red bytes 7 and 8 share a bucket of width 10 and lie in two of width 8;
\* 200 and 100 lie apart from them and from each other.
StripeColours ==
    <<(<<200, 0, 0, 255>>), (<<7, 0, 0, 255>>), (<<8, 0, 0, 255>>),
      (<<100, 0, 0, 255>>)>>
StripeLayouts ==
    {<<1, 1, 1, 3, 3, 3, 3, 3, 3, 2>>,
     <<1, 1, 1, 1, 1, 4, 4, 4, 4, 4>>,
     <<4, 4, 4, 4, 4, 1, 1, 1, 1, 1>>,
     <<1, 2, 2, 2, 2, 2, 2, 2, 2, 4>>,
     <<2, 1, 1, 1, 1, 4, 4, 4, 4, 3>>}
StripeImages == {StripeImage(10, 10, StripeColours, l) : l \in StripeLayouts}
HeuristicImages ==
    {BlockImage(sz[1], sz[2], c[1], c[2]) :
        sz \in HeuristicSizes,
        c \in {<<a, a>> : a \in HeuristicColors}
              \cup {<<(<<100, 100, 100, 255>>), (<<255, 0, 0, 255>>)>>,
                    <<(<<100, 100, 100, 255>>), (<<105, 100, 100, 255>>)>>,
                    <<(<<255, 0, 0, 255>>), (<<220, 200, 240, 120>>)>>}}
    \cup StripeImages
ColorTolerances == {0, 10, DefaultColorTolerance}
EdgeThresholds == {0, DefaultEdgeThreshold}
Smoothings == {DefaultSmoothing, 2}
\* 'auto', '#646464', 'fff'.
BackgroundColors ==
    {AutoBackground, HexBackground(TRUE, <<6, 4, 6, 4, 6, 4>>),
     HexBackground(FALSE, <<15, 15, 15>>)}
HeuristicOptionSets ==
    {AdvancedOptions(t, e, sm, bg) :
        t \in ColorTolerances, e \in EdgeThresholds, sm \in Smoothings,
        bg \in BackgroundColors}

(***************************************************************************)
(* The ImageProcessor component (ImageProcessor.tsx 39-280)                *)
(***************************************************************************)

\* Bounds: the File objects dropped, the calls of initializeBodyPix.
MaxFiles == 2
MaxLoadAttempts == 2

\* Two calls of handleProcessImages can be in flight: clearAll resets
\* processingProgress, which enables the buttons again.
BatchSlots == {1, 2}

ProcessingTypes == {"format", "background", "upscale", "advanced", "watermark"}

\* What a call of processImage meets: whether the file decodes, the side of
\* the image, whether segmentPerson rejects, whether the upscale slider (line
\* 456) stands above 1, and whether the image made from the upscaled canvas
\* fires onload (imageUtils.ts 649-654).
Environments ==
    [decodable : BOOLEAN, side : {8, 16}, segmentation : {"ok", "throws"},
     upscales : BOOLEAN, reloads : BOOLEAN]

File(id) == [name |-> id]

\* Lines 205-210.
ProcessedImageOf(file) == [original |-> file]

CountOf(log, e) == Cardinality({k \in DOMAIN log : log[k] = e})

\* options.backgroundRemovalType keeps its initial value 'ai' (line 54): the
\* types that need the model (lines 110, 411, 427).
NeedsModel(processingType) == processingType \in {"background", "advanced"}

\* processImage (lines 109-217) as its caller sees it: "ok", "throws",
\* "diverges" (a loop that never ends) or "pends" (a promise that never
\* settles).  watermarkOptions keeps its initial value (lines 59-66: blur,
\* autoDetect, no region).  With 'advanced' and an upscale factor above 1,
\* processImageAdvanced awaits the onload of the image made from the upscaled
\* canvas (imageUtils.ts 652-654), which has no onerror handler.
ProcessImage(processingType, modelLoaded, model, env) ==
    IF ~modelLoaded /\ NeedsModel(processingType) THEN "throws"
    ELSE IF ~env.decodable THEN "throws"
    ELSE IF processingType = "watermark"
    THEN IF DetectionDiverges(env.side, env.side) THEN "diverges" ELSE "ok"
    ELSE IF processingType = "advanced" /\ env.upscales /\ ~env.reloads
    THEN "pends"
    ELSE IF NeedsModel(processingType)
    THEN IF model = "null" \/ env.segmentation = "throws" THEN "throws" ELSE "ok"
    ELSE "ok"

\* The ways the processImage call of batch b can end, over everything it
\* can meet.
ProcessImageOutcomes(b, modelLoaded, model) ==
    {ProcessImage(b.processingType, modelLoaded, model, env) : env \in Environments}

IdleBatch ==
    [pc |-> "idle", processingType |-> "format", files |-> <<>>, i |-> 1,
     results |-> <<>>, outcomes |-> <<>>, isModelLoaded |-> FALSE]

\* handleProcessImages up to its first await (lines 234-247): the closure's
\* selectedFiles and isModelLoaded are those of the render that was clicked.
StartBatch(processingType, files, modelLoaded) ==
    [pc |-> "awaiting", processingType |-> processingType, files |-> files,
     i |-> 1, results |-> <<>>, outcomes |-> <<>>, isModelLoaded |-> modelLoaded]

\* A loop that stops at the first failure, in place of the catch of lines
\* 249-251.
BatchIterateAbortOnError(b, outcome) ==
    [b EXCEPT !.results = IF outcome = "ok"
                          THEN Append(@, ProcessedImageOf(b.files[b.i])) ELSE @,
              !.outcomes = Append(@, outcome),
              !.i = IF outcome = "ok" THEN @ + 1 ELSE Len(b.files) + 1]
\* One turn of the loop of lines 239-252 once processImage has settled:
\* results.push on success, the catch only logs; then i++.
BatchIterate(b, outcome) ==
    [b EXCEPT !.results = IF outcome = "ok"
                          THEN Append(@, ProcessedImageOf(b.files[b.i])) ELSE @,
              !.outcomes = Append(@, outcome),
              !.i = @ + 1]

NoStore == [files |-> <<>>, outcomes |-> <<>>]

RemoveAt(seq, index) ==
    [k \in 1..(Len(seq) - 1) |-> IF k < index THEN seq[k] ELSE seq[k + 1]]

(***************************************************************************)
(* upscaleImage (imageUtils.ts 457-620).  A scale factor is the rational   *)
(* num / den; a source coordinate srcX = (x / targetWidth) * width is kept *)
(* as the fraction xn / xd, where the code computes in IEEE doubles.       *)
(***************************************************************************)

Factor(num, den) == [num |-> num, den |-> den]

\* Math.floor(n * factor) of lines 472-473.
FloorTimes(n, factor) == (n * factor.num) \div factor.den

\* A real argument as the fraction n / d, d > 0.
Fraction(n, d) == [n |-> n, d |-> d]

\* A kernel that falls linearly from 1 at 0 to 0 at 2, in place of lines
\* 556-561, times 2 * d^3.
CubicWeightLinear(n, d) ==
    IF Abs(n) <= 2 * d THEN 2 * d * d * d - Abs(n) * d * d ELSE 0
\* cubicWeight(n / d) (lines 554-562), times 2 * d^3.
CubicWeight(n, d) ==
    IF Abs(n) <= d
    THEN 3 * Abs(n) * Abs(n) * Abs(n) - 5 * Abs(n) * Abs(n) * d + 2 * d * d * d
    ELSE IF Abs(n) <= 2 * d
    THEN 5 * Abs(n) * Abs(n) * d - Abs(n) * Abs(n) * Abs(n) - 8 * Abs(n) * d * d
         + 4 * d * d * d
    ELSE 0

\* One channel of bicubicInterpolation (lines 524-551) at (xn/xd, yn/yd).
BicubicChannel(data, c, xn, xd, yn, yd, width, height) ==
    LET taps == (-1..2) \X (-1..2)
        sum == SumOver(taps,
                 [k \in taps |->
                    data[PixelIndex(
                            Max(0, Min(width - 1, (xn \div xd) + k[1])),
                            Max(0, Min(height - 1, (yn \div yd) + k[2])),
                            width)][c]
                      * CubicWeight((xn % xd) - k[1] * xd, xd)
                      * CubicWeight((yn % yd) - k[2] * yd, yd)])
    IN  ClampByte(MathRound(sum, 4 * xd * xd * xd * yd * yd * yd))

BicubicInterpolation(data, xn, xd, yn, yd, width, height) ==
    <<BicubicChannel(data, 1, xn, xd, yn, yd, width, height),
      BicubicChannel(data, 2, xn, xd, yn, yd, width, height),
      BicubicChannel(data, 3, xn, xd, yn, yd, width, height),
      BicubicChannel(data, 4, xn, xd, yn, yd, width, height)>>

\* 10^4 * sin(x / 10^4) for 0 <= x <= 15708, by the series to x^9.
SinSeries(x) ==
    LET x2 == MulFixed(x, x)
        t3 == MulFixed(x, x2) \div 6
        t5 == MulFixed(t3, x2) \div 20
        t7 == MulFixed(t5, x2) \div 42
        t9 == MulFixed(t7, x2) \div 72
    IN  x - t3 + t5 - t7 + t9

\* 10^4 * Math.sin(Math.PI * n / d) for d > 0.
SinFixed(n, d) ==
    LET m == n % (2 * d)
        half == IF m >= d THEN m - d ELSE m
        folded == IF 2 * half > d THEN d - half ELSE half
    IN  IF m >= d THEN 0 - SinSeries((31416 * folded) \div d)
        ELSE SinSeries((31416 * folded) \div d)

\* radius of line 574.
LanczosRadius == 2

\* lanczosWeight(n / d, radius) (lines 612-620), times 10^4.
LanczosWeight(n, d, radius) ==
    IF n = 0 THEN 10000
    ELSE IF Abs(n) >= radius * d THEN 0
    ELSE (MulFixed(SinFixed(n, d), SinFixed(n, radius * d)) * radius * d * d * 1000)
            \div (9870 * n * n)

\* The weight of the tap k of lanczosInterpolation (lines 585-587).
LanczosTapWeight(k, xn, xd, yn, yd) ==
    MulFixed(LanczosWeight((xn % xd) - k[1] * xd, xd, LanczosRadius),
             LanczosWeight((yn % yd) - k[2] * yd, yd, LanczosRadius))

\* One channel of lanczosInterpolation (lines 572-609).
LanczosChannel(data, c, w, xn, xd, yn, yd, width, height) ==
    LET taps == DOMAIN w
        weightSum == SumOver(taps, w)
        sum == SumOver(taps,
                 [k \in taps |->
                    data[PixelIndex(
                            Max(0, Min(width - 1, (xn \div xd) + k[1])),
                            Max(0, Min(height - 1, (yn \div yd) + k[2])),
                            width)][c] * w[k]])
    IN  IF weightSum > 0 THEN ClampByte(MathRound(sum, weightSum))
        ELSE ClampByte(MathRound(sum, 10000))

LanczosPixel(data, w, xn, xd, yn, yd, width, height) ==
    <<LanczosChannel(data, 1, w, xn, xd, yn, yd, width, height),
      LanczosChannel(data, 2, w, xn, xd, yn, yd, width, height),
      LanczosChannel(data, 3, w, xn, xd, yn, yd, width, height),
      LanczosChannel(data, 4, w, xn, xd, yn, yd, width, height)>>

LanczosInterpolation(data, xn, xd, yn, yd, width, height) ==
    LanczosPixel(data,
        Table([k \in (-LanczosRadius..LanczosRadius)
                        \X (-LanczosRadius..LanczosRadius) |->
                    LanczosTapWeight(k, xn, xd, yn, yd)]),
        xn, xd, yn, yd, width, height)

\* drawImage(imageElement, 0, 0, targetWidth, targetHeight) (line 488): the
\* bytes of a scaled draw are the browser's.  Two sampling rules stand for
\* them: the source pixel under the top-left corner of the target pixel, or
\* the one under its centre.
Renderings == {"corner", "centre"}

SampleAt(x, size, targetSize, rendering) ==
    IF rendering = "corner" THEN (x * size) \div targetSize
    ELSE ((2 * x + 1) * size) \div (2 * targetSize)

ScaledDrawImage(img, targetWidth, targetHeight, rendering) ==
    Table([i \in 0..(targetWidth * targetHeight - 1) |->
        img.data[PixelIndex(
            SampleAt(i % targetWidth, img.width, targetWidth, rendering),
            SampleAt(i \div targetWidth, img.height, targetHeight, rendering),
            img.width)]])

\* The loop of lines 495-510.
InterpolatedData(img, targetWidth, targetHeight, algorithm) ==
    Table([i \in 0..(targetWidth * targetHeight - 1) |->
        IF algorithm = "bicubic"
        THEN BicubicInterpolation(img.data,
                 (i % targetWidth) * img.width, targetWidth,
                 (i \div targetWidth) * img.height, targetHeight,
                 img.width, img.height)
        ELSE LanczosInterpolation(img.data,
                 (i % targetWidth) * img.width, targetWidth,
                 (i \div targetWidth) * img.height, targetHeight,
                 img.width, img.height)])

PipelineReturned(canvas) == [status |-> "returned", error |-> "none", canvas |-> canvas]

PipelineThrows(error) ==
    [status |-> "throws", error |-> error, canvas |-> Buffer(0, 0, <<>>)]

PipelinePending == [status |-> "pending", error |-> "none", canvas |-> Buffer(0, 0, <<>>)]

\* upscaleImage with the target size computed (lines 475-513), for target
\* sides >= 0.  createImageData (line 493) throws IndexSizeError when a side
\* is 0.
UpscaleToSize(img, targetWidth, targetHeight, algorithm, rendering) ==
    IF algorithm \in {"nearest", "bilinear"}
    THEN PipelineReturned(Buffer(targetWidth, targetHeight,
             ScaledDrawImage(img, targetWidth, targetHeight, rendering)))
    ELSE IF targetWidth = 0 \/ targetHeight = 0
    THEN PipelineThrows("IndexSizeError")
    ELSE PipelineReturned(Buffer(targetWidth, targetHeight,
             InterpolatedData(img, targetWidth, targetHeight, algorithm)))

\* upscaleImage (lines 457-514), for factors >= 0.
UpscaleImage(img, factor, algorithm, rendering) ==
    UpscaleToSize(img, FloorTimes(img.width, factor),
                  FloorTimes(img.height, factor), algorithm, rendering)

(***************************************************************************)
(* processImageAdvanced (imageUtils.ts 623-682) and the format path of     *)
(* processImage (ImageProcessor.tsx 175-191).                              *)
(***************************************************************************)

\* The options of lines 633-639.  backgroundOptions are the options handed
\* to removeBackgroundAdvanced; removeBackground reads none that changes the
\* buffer.
PipelineOptionsWith(factor, algorithm, removeBg, removalType, backgroundOptions) ==
    [upscaleFactor |-> factor, upscaleAlgorithm |-> algorithm,
     removeBackground |-> removeBg, backgroundRemovalType |-> removalType,
     backgroundOptions |-> backgroundOptions]

\* backgroundRemovalType and backgroundOptions left out: 'ai' and {} (lines
\* 637-638).
PipelineOptions(factor, algorithm, removeBg) ==
    PipelineOptionsWith(factor, algorithm, removeBg, "ai",
        AdvancedOptions(DefaultColorTolerance, DefaultEdgeThreshold,
                        DefaultSmoothing, AutoBackground))

\* What a call meets: how the browser scales, whether the image made from
\* the upscaled canvas ever fires onload (lines 649-654 await nothing else),
\* the model handle, whether segmentPerson rejects and which pixels it keeps.
PipelineEnvironments ==
    [rendering : Renderings, reloads : BOOLEAN, model : {"null", "model"},
     throws : BOOLEAN, keeps : {0, 1}]

\* A segmentation that keeps every pixel (1) or none (0).
SegmentationOf(img, env) ==
    [throws |-> env.throws, data |-> [i \in DOMAIN img.data |-> env.keeps]]

FromRemoveBackground(rb) ==
    IF rb.hasCanvas THEN PipelineReturned(rb.canvas) ELSE PipelineThrows(rb.error)

FromRemoveBackgroundAdvanced(rb) ==
    IF rb.status = "returned" THEN PipelineReturned(rb.canvas) ELSE PipelinePending

\* History: a function processImageAdvanced called, the image it was called
\* with and the canvas it gave back (empty when it gave none).
Called(fn, img, result) == [fn |-> fn, image |-> img, canvas |-> result.canvas]

\* What a call of processImageAdvanced comes to and the calls it made.
Outcome(result, calls) == [result |-> result, calls |-> calls]

\* Lines 656-660 and 665-669: the remover backgroundRemovalType selects.
RemoverName(options) ==
    IF options.backgroundRemovalType = "ai" THEN "removeBackground"
    ELSE "removeBackgroundAdvanced"

SelectedRemover(img, options, env) ==
    IF options.backgroundRemovalType = "ai"
    THEN FromRemoveBackground(
             RemoveBackground(env.model, img, SegmentationOf(img, env)))
    ELSE FromRemoveBackgroundAdvanced(
             RemoveBackgroundAdvanced(img, options.backgroundOptions))

RemoverOutcome(before, img, removed, options) ==
    Outcome(removed, Append(before, Called(RemoverName(options), img, removed)))

\* Lines 648-661 with the removal left out: the upscaled canvas is handed
\* back as it is.
AfterUpscaleWithoutRemoval(img, up, options, env) ==
    Outcome(up, <<Called("upscaleImage", img, up)>>)
\* Lines 648-661, reached with the canvas upscaleImage returned for img.
AfterUpscale(img, up, options, env) ==
    IF up.status # "returned" \/ ~options.removeBackground
    THEN Outcome(up, <<Called("upscaleImage", img, up)>>)
    ELSE IF ~env.reloads
    THEN Outcome(PipelinePending, <<Called("upscaleImage", img, up)>>)
    ELSE RemoverOutcome(<<Called("upscaleImage", img, up)>>, up.canvas,
                        SelectedRemover(up.canvas, options, env), options)

\* processImageAdvanced (lines 623-682).
ProcessImageAdvanced(img, options, env) ==
    IF options.upscaleFactor.num > options.upscaleFactor.den
    THEN AfterUpscale(img,
                      UpscaleImage(img, options.upscaleFactor,
                                   options.upscaleAlgorithm, env.rendering),
                      options, env)
    ELSE IF options.removeBackground
    THEN RemoverOutcome(<<>>, img, SelectedRemover(img, options, env), options)
    ELSE Outcome(PipelineReturned(DrawImageToNewCanvas(img)), <<>>)

\* processImage with processingType 'format' between lines 175 and 191.
ProcessImageFormat(img, options, env) ==
    IF options.upscaleFactor.num > options.upscaleFactor.den
    THEN ProcessImageAdvanced(img,
             PipelineOptions(options.upscaleFactor, options.upscaleAlgorithm, FALSE),
             env)
    ELSE Outcome(PipelineReturned(DrawImageToNewCanvas(img)), <<>>)

\* The inputs explored: images of one to four pixels, the factors -1, 0,
\* 1/2, 1, 3/2 and 2.
PipelineImageSizes == {<<1, 1>>, <<2, 1>>, <<2, 2>>}

PipelineImages ==
    {PatternImage(sz[1], sz[2], pat) : sz \in PipelineImageSizes,
                                        pat \in ImagePatterns}

Factors == {Factor(-1, 1), Factor(0, 1), Factor(1, 2), Factor(1, 1),
            Factor(3, 2), Factor(2, 1)}

\* The UpscaleAlgorithm values of types/index.ts line 55, and a string that
\* is none of them.
KnownUpscaleAlgorithms == {"bicubic", "lanczos", "nearest", "bilinear"}
UpscaleAlgorithms == KnownUpscaleAlgorithms \cup {"hermite"}

PipelineOptionSets ==
    {PipelineOptions(f, a, rb) : f \in Factors, a \in UpscaleAlgorithms,
                                 rb \in BOOLEAN}

\* Options that select removeBackgroundAdvanced, with its defaults and with
\* the background colour '#646464', and the images they are explored on:
\* the ones above and two of 5 x 5 pixels, which a factor of 2 brings to the
\* 10 x 10 from which detectBackgroundColor returns.
AdvancedPipelineOptionSets ==
    {PipelineOptionsWith(f, a, TRUE, "advanced",
                         AdvancedOptions(DefaultColorTolerance, DefaultEdgeThreshold,
                                         DefaultSmoothing, bg)) :
        f \in {Factor(1, 1), Factor(2, 1)}, a \in {"nearest", "bilinear"},
        bg \in {AutoBackground, HexBackground(TRUE, <<6, 4, 6, 4, 6, 4>>)}}

AdvancedPipelineImages ==
    {PatternImage(2, 2, <<1, 1, 0, 3>>),
     BlockImage(5, 5, <<100, 100, 100, 255>>, <<100, 100, 100, 255>>),
     BlockImage(5, 5, <<100, 100, 100, 255>>, <<255, 0, 0, 255>>)}

(***************************************************************************)
(* Specifications                                                          *)
(***************************************************************************)

EmptyImage == Buffer(0, 0, <<>>)

MergeIdle == regions = <<>> /\ merged = <<>> /\ mergeDone = FALSE

WatermarkIdle ==
    /\ image = EmptyImage
    /\ wmOptions = WmOptions("blur", FALSE, NoRegion, 10, 5, 3, FALSE)
    /\ wmCanvas = EmptyImage
    /\ wmStatus = "idle"
    /\ wmTrace = NoTrace

\* The component before it is mounted.
UIIdle ==
    /\ bodyPixModel = "null"
    /\ isModelLoaded = FALSE
    /\ isLoadingModel = FALSE
    /\ effectPending = FALSE
    /\ loadPc = "none"
    /\ loadLog = <<>>
    /\ rbResult = NoCall
    /\ selectedFiles = <<>>
    /\ filesDropped = 0
    /\ processedImages = <<>>
    /\ processingProgress = "null"
    /\ batches = [s \in BatchSlots |-> IdleBatch]
    /\ storedFrom = NoStore
    /\ frozen = FALSE

PipelineIdle ==
    /\ pipeImage = EmptyImage
    /\ pipeOptions = PipelineOptions(Factor(1, 1), "bicubic", FALSE)
    /\ pipeCalled = "none"
    /\ pipeResult = PipelinePending
    /\ pipeTrace = <<>>

BackgroundIdle ==
    /\ bgImage = EmptyImage
    /\ bgOptions = AdvancedOptions(DefaultColorTolerance, DefaultEdgeThreshold,
                                   DefaultSmoothing, AutoBackground)
    /\ bgResult = AdvancedPending

KernelIdle ==
    /\ kernelT = Fraction(0, 1)
    /\ kernelCalled = "none"
    /\ kernelWeights = <<>>

InitMerge ==
    /\ regions \in CandidateLists
    /\ merged = <<>>
    /\ mergeDone = FALSE
    /\ WatermarkIdle
    /\ UIIdle
    /\ PipelineIdle
    /\ BackgroundIdle
    /\ KernelIdle

\* A call of mergeOverlappingRegions(regions).
MergeCall ==
    /\ ~mergeDone
    /\ merged' = MergeOverlappingRegions(regions)
    /\ mergeDone' = TRUE
    /\ UNCHANGED <<regions, wmVars, uiVars, pipeVars, bgVars, kernelVars>>

NextMerge == MergeCall

SpecMerge == InitMerge /\ [][NextMerge]_vars

InitWatermark ==
    /\ \/ image \in ModelImages /\ wmOptions \in WatermarkOptionSets
       \/ image \in CloneImages /\ wmOptions \in CloneOptionSets
       \/ image \in DetectImages /\ wmOptions \in DetectOptionSets
    /\ wmCanvas = EmptyImage
    /\ wmStatus = "idle"
    /\ wmTrace = NoTrace
    /\ MergeIdle
    /\ UIIdle
    /\ PipelineIdle
    /\ BackgroundIdle
    /\ KernelIdle

\* A call of removeWatermark(image, wmOptions) that returns.
RemoveWatermarkCall ==
    /\ wmStatus = "idle"
    /\ \E r \in {RemoveWatermark(image, wmOptions)} :
           /\ r.status = "returned"
           /\ wmCanvas' = r.canvas
           /\ wmTrace' = [mask |-> r.mask, touched |-> r.touched,
                          donor |-> r.donor, detects |-> r.detects,
                          detected |-> r.detected]
    /\ wmStatus' = "returned"
    /\ UNCHANGED <<image, wmOptions, mergeVars, uiVars, pipeVars, bgVars, kernelVars>>

\* A call of removeWatermark(image, wmOptions) that never returns.
RemoveWatermarkHang ==
    /\ wmStatus = "idle"
    /\ \E r \in {RemoveWatermark(image, wmOptions)} :
           /\ r.status = "diverged"
           /\ wmTrace' = [mask |-> r.mask, touched |-> r.touched,
                          donor |-> r.donor, detects |-> r.detects,
                          detected |-> r.detected]
    /\ wmStatus' = "diverged"
    /\ UNCHANGED <<image, wmOptions, wmCanvas, mergeVars, uiVars, pipeVars, bgVars, kernelVars>>

NextWatermark == RemoveWatermarkCall \/ RemoveWatermarkHang

SpecWatermark == InitWatermark /\ [][NextWatermark]_vars

\* The component right after it is mounted: the effect of lines 72-88 is
\* due to run.
InitUI ==
    /\ bodyPixModel = "null"
    /\ isModelLoaded = FALSE
    /\ isLoadingModel = FALSE
    /\ effectPending = TRUE
    /\ loadPc = "none"
    /\ loadLog = <<>>
    /\ rbResult = NoCall
    /\ selectedFiles = <<>>
    /\ filesDropped = 0
    /\ processedImages = <<>>
    /\ processingProgress = "null"
    /\ batches = [s \in BatchSlots |-> IdleBatch]
    /\ storedFrom = NoStore
    /\ frozen = FALSE
    /\ MergeIdle
    /\ WatermarkIdle
    /\ PipelineIdle
    /\ BackgroundIdle
    /\ KernelIdle

\* The effect runs and loadModel starts a load (lines 74-77):
\* setIsLoadingModel(true) changes a dependency, so the effect is due again.
EffectStartsLoad ==
    /\ ~frozen /\ effectPending
    /\ ~isModelLoaded /\ ~isLoadingModel
    /\ CountOf(loadLog, "start") < MaxLoadAttempts
    /\ isLoadingModel' = TRUE
    /\ loadPc' = "initializing"
    /\ loadLog' = Append(loadLog, "start")
    /\ effectPending' = TRUE
    /\ UNCHANGED <<bodyPixModel, isModelLoaded, rbResult, fileVars, batchVars,
                   mergeVars, wmVars, pipeVars, bgVars, kernelVars>>

\* The effect runs and the condition of line 74 is false.
EffectSkips ==
    /\ ~frozen /\ effectPending
    /\ isModelLoaded \/ isLoadingModel
    /\ effectPending' = FALSE
    /\ UNCHANGED <<bodyPixModel, isModelLoaded, isLoadingModel, loadPc, loadLog,
                   rbResult, fileVars, batchVars, mergeVars, wmVars, pipeVars, bgVars, kernelVars>>

\* initializeBodyPix resolves (lines 24-31): bodyPixModel is assigned.
InitializeBodyPixSucceeds ==
    /\ ~frozen /\ loadPc = "initializing"
    /\ bodyPixModel' = "model"
    /\ loadPc' = "resolved"
    /\ loadLog' = Append(loadLog, "ok")
    /\ UNCHANGED <<isModelLoaded, isLoadingModel, effectPending, rbResult,
                   fileVars, batchVars, mergeVars, wmVars, pipeVars, bgVars, kernelVars>>

\* tf.ready() or bodyPix.load rejects (lines 32-35): logged and rethrown.
InitializeBodyPixFails ==
    /\ ~frozen /\ loadPc = "initializing"
    /\ loadPc' = "rejected"
    /\ loadLog' = Append(loadLog, "fail")
    /\ UNCHANGED <<bodyPixModel, isModelLoaded, isLoadingModel, effectPending,
                   rbResult, fileVars, batchVars, mergeVars, wmVars, pipeVars, bgVars, kernelVars>>

\* loadModel after the await: setIsModelLoaded(true), then the finally
\* (lines 78, 82).
LoadModelResumes ==
    /\ ~frozen /\ loadPc = "resolved"
    /\ isModelLoaded' = TRUE
    /\ isLoadingModel' = FALSE
    /\ loadPc' = "none"
    /\ effectPending' = TRUE
    /\ UNCHANGED <<bodyPixModel, loadLog, rbResult, fileVars, batchVars,
                   mergeVars, wmVars, pipeVars, bgVars, kernelVars>>

\* loadModel after the await threw: the catch logs, then the finally
\* (lines 79-83).  isLoadingModel changes, so the effect is due again.
LoadModelCatches ==
    /\ ~frozen /\ loadPc = "rejected"
    /\ isLoadingModel' = FALSE
    /\ loadPc' = "none"
    /\ effectPending' = TRUE
    /\ UNCHANGED <<bodyPixModel, isModelLoaded, loadLog, rbResult, fileVars,
                   batchVars, mergeVars, wmVars, pipeVars, bgVars, kernelVars>>

\* Some caller calls removeBackground(img) and segmentPerson behaves as
\* segmentation says.
RemoveBackgroundCall ==
    /\ ~frozen
    /\ \E img \in SegImages, segmentation \in Segmentations :
        rbResult' = [called |-> TRUE, loadLog |-> loadLog,
                     segmentation |-> segmentation, image |-> img,
                     result |-> RemoveBackground(bodyPixModel, img, segmentation)]
    /\ UNCHANGED <<loadVars, fileVars, batchVars, mergeVars, wmVars, pipeVars, bgVars, kernelVars>>

\* onDrop with one valid image file (lines 90-93).
OnDrop ==
    /\ ~frozen /\ filesDropped < MaxFiles
    /\ selectedFiles' = Append(selectedFiles, File(filesDropped + 1))
    /\ filesDropped' = filesDropped + 1
    /\ UNCHANGED <<loadVars, rbResult, batchVars, mergeVars, wmVars, pipeVars, bgVars, kernelVars>>

\* removeFile(index) (lines 105-107).
RemoveFile ==
    /\ ~frozen
    /\ \E index \in DOMAIN selectedFiles :
        selectedFiles' = RemoveAt(selectedFiles, index)
    /\ UNCHANGED <<filesDropped, loadVars, rbResult, batchVars, mergeVars, wmVars, pipeVars, bgVars, kernelVars>>

\* clearAll (lines 275-280).
ClearAll ==
    /\ ~frozen
    /\ selectedFiles' = <<>>
    /\ processedImages' = <<>>
    /\ processingProgress' = "null"
    /\ storedFrom' = NoStore
    /\ UNCHANGED <<filesDropped, batches, frozen, loadVars, rbResult, mergeVars,
                   wmVars, pipeVars, bgVars, kernelVars>>

\* A click on one of the process buttons (lines 394-427): the buttons are
\* disabled while processingProgress is set, the two that need the model
\* also while it is not loaded.  handleProcessImages returns at once when
\* there are no files (line 235); otherwise it runs to the await of line 247.
HandleProcessImages ==
    /\ ~frozen /\ processingProgress = "null"
    /\ \E processingType \in ProcessingTypes :
        /\ NeedsModel(processingType) => isModelLoaded
        /\ IF selectedFiles = <<>>
           THEN UNCHANGED <<batches, processingProgress>>
           ELSE \E s \in BatchSlots :
                /\ batches[s].pc = "idle"
                /\ \A t \in BatchSlots : t < s => batches[t].pc # "idle"
                /\ batches' = [batches EXCEPT ![s] =
                        StartBatch(processingType, selectedFiles, isModelLoaded)]
                /\ processingProgress' = "loading"
    /\ UNCHANGED <<processedImages, storedFrom, frozen, loadVars, rbResult,
                   fileVars, mergeVars, wmVars, pipeVars, bgVars, kernelVars>>

\* The processImage call a batch awaits settles; the loop goes on to the
\* next file, or, after the last one, to lines 254-255.
ProcessImageSettles ==
    /\ ~frozen
    /\ \E s \in BatchSlots :
        /\ batches[s].pc = "awaiting"
        /\ \E outcome \in ProcessImageOutcomes(batches[s], batches[s].isModelLoaded,
                                                bodyPixModel) :
            /\ outcome \in {"ok", "throws"}
            /\ \E b \in {BatchIterate(batches[s], outcome)} :
                IF b.i <= Len(b.files)
                THEN /\ batches' = [batches EXCEPT ![s] = b]
                     /\ processingProgress' = "loading"
                     /\ UNCHANGED <<processedImages, storedFrom>>
                ELSE /\ batches' = [batches EXCEPT ![s] = IdleBatch]
                     /\ processedImages' = b.results
                     /\ processingProgress' = "null"
                     /\ storedFrom' = [files |-> b.files, outcomes |-> b.outcomes]
    /\ UNCHANGED <<frozen, loadVars, rbResult, fileVars, mergeVars, wmVars, pipeVars, bgVars, kernelVars>>

\* The processImage call a batch awaits enters the scan loop of
\* detectWatermarkRegions that never ends: nothing else runs on the page.
ProcessImageDiverges ==
    /\ ~frozen
    /\ \E s \in BatchSlots :
        /\ batches[s].pc = "awaiting"
        /\ "diverges" \in ProcessImageOutcomes(batches[s], batches[s].isModelLoaded,
                                                bodyPixModel)
    /\ frozen' = TRUE
    /\ UNCHANGED <<processedImages, processingProgress, batches, storedFrom,
                   loadVars, rbResult, fileVars, mergeVars, wmVars, pipeVars, bgVars, kernelVars>>

\* The processImage call a batch awaits waits for an onload that is never
\* fired: the batch stays at its await, the page goes on.
ProcessImagePends ==
    /\ ~frozen
    /\ \E s \in BatchSlots :
        /\ batches[s].pc = "awaiting"
        /\ "pends" \in ProcessImageOutcomes(batches[s], batches[s].isModelLoaded,
                                             bodyPixModel)
        /\ batches' = [batches EXCEPT ![s].pc = "pending"]
    /\ UNCHANGED <<processedImages, processingProgress, storedFrom, frozen,
                   loadVars, rbResult, fileVars, mergeVars, wmVars, pipeVars,
                   bgVars, kernelVars>>

\* The model load and the callers of removeBackground.
NextModelLoad ==
    \/ EffectStartsLoad \/ EffectSkips
    \/ InitializeBodyPixSucceeds \/ InitializeBodyPixFails
    \/ LoadModelResumes \/ LoadModelCatches
    \/ RemoveBackgroundCall

SpecModelLoad == InitUI /\ [][NextModelLoad]_vars

\* The model load, the file list and the batch handler.
NextUI ==
    \/ EffectStartsLoad \/ EffectSkips
    \/ InitializeBodyPixSucceeds \/ InitializeBodyPixFails
    \/ LoadModelResumes \/ LoadModelCatches
    \/ OnDrop \/ RemoveFile \/ ClearAll
    \/ HandleProcessImages \/ ProcessImageSettles \/ ProcessImageDiverges
    \/ ProcessImagePends

SpecUI == InitUI /\ [][NextUI]_vars

\* The component with the event loop's guarantee: the continuation of a
\* promise that settles is run, and so is the one of a model load.
SpecUIFair ==
    /\ SpecUI
    /\ WF_vars(ProcessImageSettles)
    /\ WF_vars(InitializeBodyPixSucceeds \/ InitializeBodyPixFails)
    /\ WF_vars(LoadModelResumes \/ LoadModelCatches)

InitPipeline ==
    /\ \/ pipeImage \in PipelineImages /\ pipeOptions \in PipelineOptionSets
       \/ /\ pipeImage \in AdvancedPipelineImages
          /\ pipeOptions \in AdvancedPipelineOptionSets
    /\ pipeCalled = "none"
    /\ pipeResult = PipelinePending
    /\ pipeTrace = <<>>
    /\ MergeIdle
    /\ WatermarkIdle
    /\ UIIdle
    /\ BackgroundIdle
    /\ KernelIdle

\* A call of upscaleImage(pipeImage, factor, algorithm).
UpscaleImageCall ==
    /\ pipeCalled = "none"
    /\ pipeOptions.upscaleFactor.num >= 0
    /\ \E rendering \in Renderings :
        pipeResult' = UpscaleImage(pipeImage, pipeOptions.upscaleFactor,
                                   pipeOptions.upscaleAlgorithm, rendering)
    /\ pipeCalled' = "upscaleImage"
    /\ UNCHANGED <<pipeImage, pipeOptions, pipeTrace, mergeVars, wmVars, uiVars, bgVars, kernelVars>>

\* A call of processImageAdvanced(pipeImage, pipeOptions).
ProcessImageAdvancedCall ==
    /\ pipeCalled = "none"
    /\ \E env \in PipelineEnvironments :
        \E r \in {ProcessImageAdvanced(pipeImage, pipeOptions, env)} :
            /\ pipeResult' = r.result
            /\ pipeTrace' = r.calls
    /\ pipeCalled' = "processImageAdvanced"
    /\ UNCHANGED <<pipeImage, pipeOptions, mergeVars, wmVars, uiVars, bgVars, kernelVars>>

\* processImage(file, 'format') from the decoded image to the canvas.
ProcessImageFormatCall ==
    /\ pipeCalled = "none"
    /\ \E env \in PipelineEnvironments :
        \E r \in {ProcessImageFormat(pipeImage, pipeOptions, env)} :
            /\ pipeResult' = r.result
            /\ pipeTrace' = r.calls
    /\ pipeCalled' = "processImage"
    /\ UNCHANGED <<pipeImage, pipeOptions, mergeVars, wmVars, uiVars, bgVars, kernelVars>>

NextPipeline ==
    UpscaleImageCall \/ ProcessImageAdvancedCall \/ ProcessImageFormatCall

SpecPipeline == InitPipeline /\ [][NextPipeline]_vars

InitHeuristic ==
    /\ bgImage \in HeuristicImages
    /\ bgOptions \in HeuristicOptionSets
    /\ bgResult = AdvancedPending
    /\ MergeIdle
    /\ WatermarkIdle
    /\ UIIdle
    /\ PipelineIdle
    /\ KernelIdle

\* A call of removeBackgroundAdvanced(bgImage, bgOptions) that returns.
RemoveBackgroundAdvancedCall ==
    /\ bgResult.status = "pending"
    /\ \E r \in {RemoveBackgroundAdvanced(bgImage, bgOptions)} :
        /\ r.status = "returned"
        /\ bgResult' = r
    /\ UNCHANGED <<bgImage, bgOptions, mergeVars, wmVars, uiVars, pipeVars, kernelVars>>

\* A call that enters a sampling loop of detectBackgroundColor that never
\* ends.
RemoveBackgroundAdvancedHang ==
    /\ bgResult.status = "pending"
    /\ bgOptions.backgroundColor.auto
    /\ DetectBackgroundColorDiverges(bgImage.width, bgImage.height)
    /\ bgResult' = AdvancedDiverged
    /\ UNCHANGED <<bgImage, bgOptions, mergeVars, wmVars, uiVars, pipeVars, kernelVars>>

NextHeuristic == RemoveBackgroundAdvancedCall \/ RemoveBackgroundAdvancedHang

SpecHeuristic == InitHeuristic /\ [][NextHeuristic]_vars

\* The arguments of cubicWeight explored: the fractions n / d from -3 to 3
\* for the denominators below.
KernelDenominators == {1, 2, 3, 4, 5, 8, 10}
KernelArguments ==
    UNION {{Fraction(n, d) : n \in (-3 * d)..(3 * d)} : d \in KernelDenominators}

\* The bicubic calls of upscaleImage explored: the small images at the
\* factors 1, 3/2 and 2, which give the fractional offsets 0, 1/3, 1/2, 2/3.
BicubicOptionSets ==
    {PipelineOptions(f, "bicubic", FALSE) :
        f \in {Factor(1, 1), Factor(3, 2), Factor(2, 1)}}

InitKernel ==
    /\ \/ /\ kernelT \in KernelArguments
          /\ PipelineIdle
       \/ /\ kernelT = Fraction(0, 1)
          /\ pipeImage \in PipelineImages
          /\ pipeOptions \in BicubicOptionSets
          /\ pipeCalled = "none"
          /\ pipeResult = PipelinePending
          /\ pipeTrace = <<>>
    /\ kernelCalled = "none"
    /\ kernelWeights = <<>>
    /\ MergeIdle
    /\ WatermarkIdle
    /\ UIIdle
    /\ BackgroundIdle

\* A call of cubicWeight(kernelT).
CubicWeightCall ==
    /\ kernelCalled = "none"
    /\ kernelWeights' = <<CubicWeight(kernelT.n, kernelT.d)>>
    /\ kernelCalled' = "cubicWeight"
    /\ UNCHANGED <<kernelT, mergeVars, wmVars, uiVars, pipeVars, bgVars>>

\* The four weights cubicWeight(dx - i), i = -1..2, of line 535 for the
\* fractional offset dx = kernelT, which lies in [0, 1).
BicubicWeightsCall ==
    /\ kernelCalled = "none"
    /\ kernelT.n >= 0
    /\ kernelT.n < kernelT.d
    /\ kernelWeights' = [k \in 1..4 |->
                            CubicWeight(kernelT.n - (k - 2) * kernelT.d, kernelT.d)]
    /\ kernelCalled' = "bicubicInterpolation"
    /\ UNCHANGED <<kernelT, mergeVars, wmVars, uiVars, pipeVars, bgVars>>

\* The kernel on its own and inside the bicubic path of upscaleImage.
NextKernel == CubicWeightCall \/ BicubicWeightsCall \/ UpscaleImageCall

SpecKernel == InitKernel /\ [][NextKernel]_vars

(***************************************************************************)
(* Claims                                                                  *)
(***************************************************************************)

\* C1: after mergeOverlappingRegions no two rectangles of the returned list
\* overlap, also when a rectangle starts to intersect the current one only
\* after the current one has grown by a later union.
NoTwoOverlap(rs) ==
    \A i, j \in 1..Len(rs) : i # j => ~RegionsOverlap(rs[i], rs[j])

C1_MergedDisjoint == mergeDone => NoTwoOverlap(merged)

SameAlpha(a, b) == \A i \in DOMAIN a.data : b.data[i][4] = a.data[i][4]

\* C2: after the frequency method the alpha of every pixel, border rows and
\* columns included, equals the alpha of the same pixel of the input.
C2_FrequencyKeepsAlpha ==
    (wmStatus = "returned" /\ wmOptions.method = "frequency")
        => SameAlpha(image, wmCanvas)

\* A region with no pixel inside the buffer.
FullyOutside(r, img) ==
    \/ r.x >= img.width \/ r.y >= img.height
    \/ r.x + r.width <= 0 \/ r.y + r.height <= 0

\* C3: removeWatermark with method 'blur' and a manual region fully outside
\* the buffer returns a buffer identical to the input.
C3_BlurOutsideUnchanged ==
    (/\ wmStatus = "returned" /\ wmOptions.method = "blur"
     /\ wmOptions.hasRegion /\ FullyOutside(wmOptions.watermarkRegion, image))
        => wmCanvas = image

InBuffer(c, img) ==
    c[1] >= 0 /\ c[1] < img.width /\ c[2] >= 0 /\ c[2] < img.height

\* C4: removeWatermark with method 'inpaint' and a manual region fully
\* outside the buffer returns a buffer identical to the input, for every
\* inpaintRadius and iterations: the mask is empty and no pixel outside the
\* buffer is indexed.
C4_InpaintOutsideUnchanged ==
    (/\ wmStatus = "returned" /\ wmOptions.method = "inpaint"
     /\ wmOptions.hasRegion /\ FullyOutside(wmOptions.watermarkRegion, image))
        => /\ wmCanvas = image
           /\ wmTrace.mask = {}
           /\ \A c \in wmTrace.touched : InBuffer(c, image)

C4_Witness ==
    /\ wmStatus = "returned" /\ wmOptions.method = "inpaint"
    /\ wmOptions.hasRegion /\ FullyOutside(wmOptions.watermarkRegion, image)
    /\ wmOptions.watermarkRegion.x < 0
    /\ wmOptions.iterations = MaxIterations
    /\ image.width = MaxSide

\* C5: a failed model load is not retried automatically: no call of
\* initializeBodyPix starts after one has failed (the component has no
\* control that asks for a load).
C5_NoAutomaticRetry ==
    \A j, k \in DOMAIN loadLog :
        (loadLog[j] = "fail" /\ j < k) => loadLog[k] # "start"

\* C6: removeBackground is never silently skipped: while no call of
\* initializeBodyPix has completed successfully it fails with the
\* model-not-initialized error and returns no image, and when segmentPerson
\* throws the error reaches the caller and no image is returned.
C6_RemoveBackgroundNeverSkipped ==
    rbResult.called =>
        /\ CountOf(rbResult.loadLog, "ok") = 0 =>
            /\ rbResult.result.error = "BodyPix model not initialized"
            /\ ~rbResult.result.hasCanvas
        /\ (CountOf(rbResult.loadLog, "ok") > 0 /\ rbResult.segmentation.throws) =>
            /\ rbResult.result.error = "segmentPerson error"
            /\ ~rbResult.result.hasCanvas

C6_Witness ==
    /\ rbResult.called
    /\ CountOf(rbResult.loadLog, "fail") > 0
    /\ CountOf(rbResult.loadLog, "ok") = 0
    /\ rbResult.result.error = "BodyPix model not initialized"

\* The results of the files whose outcome is "ok", in the order of the files.
RECURSIVE ResultsOfSuccessful(_, _, _)
ResultsOfSuccessful(files, outcomes, k) ==
    IF k > Len(files) THEN <<>>
    ELSE IF k <= Len(outcomes) /\ outcomes[k] = "ok"
    THEN <<[original |-> files[k]]>> \o ResultsOfSuccessful(files, outcomes, k + 1)
    ELSE ResultsOfSuccessful(files, outcomes, k + 1)

ByteLength(canvas) == 4 * Cardinality(DOMAIN canvas.data)

\* C8: for every scale factor f > 0 and every algorithm upscaleImage
\* returns a buffer floor(width * f) wide and floor(height * f) high whose
\* pixel array has 4 * floor(width * f) * floor(height * f) bytes.
C8_UpscaleDimensions ==
    (pipeCalled = "upscaleImage" /\ pipeOptions.upscaleFactor.num > 0) =>
        /\ pipeResult.status = "returned"
        /\ pipeResult.canvas.width
                = FloorTimes(pipeImage.width, pipeOptions.upscaleFactor)
        /\ pipeResult.canvas.height
                = FloorTimes(pipeImage.height, pipeOptions.upscaleFactor)
        /\ ByteLength(pipeResult.canvas)
                = 4 * FloorTimes(pipeImage.width, pipeOptions.upscaleFactor)
                    * FloorTimes(pipeImage.height, pipeOptions.upscaleFactor)

\* C9: with a scale factor f <= 0 upscaleImage and processImageAdvanced
\* fail with an InvalidScaleFactor error and produce no buffer.
C9_InvalidScaleFactor ==
    (/\ pipeCalled \in {"upscaleImage", "processImageAdvanced"}
     /\ pipeOptions.upscaleFactor.num <= 0) =>
        /\ pipeResult.status = "throws"
        /\ pipeResult.error = "InvalidScaleFactor"

\* C10: with scale factor 1 and no background removal, processImageAdvanced
\* and the format path of processImage return a buffer of the same width
\* and height whose every byte equals the input's, for every algorithm.
C10_FormatOnlyIdentity ==
    (/\ pipeOptions.upscaleFactor = Factor(1, 1)
     /\ \/ pipeCalled = "processImageAdvanced" /\ ~pipeOptions.removeBackground
        \/ pipeCalled = "processImage") =>
        /\ pipeResult.status = "returned"
        /\ pipeResult.canvas = pipeImage

C10_Witness ==
    /\ pipeCalled = "processImageAdvanced"
    /\ pipeOptions = PipelineOptions(Factor(1, 1), "lanczos", FALSE)
    /\ pipeImage.width = 2 /\ pipeImage.height = 2
    /\ pipeImage.data[0] # pipeImage.data[1]
    /\ pipeResult.canvas = pipeImage


UniformOpaque(img) ==
    \A i \in DOMAIN img.data : img.data[i] = img.data[0] /\ img.data[i][4] = 255

C12_UniformBecomesTransparent ==
    ( /\ bgResult.status # "pending"
      /\ UniformOpaque(bgImage)
      /\ bgOptions.backgroundColor.auto
      /\ bgOptions.colorTolerance > 0
      /\ bgOptions.smoothing = DefaultSmoothing )
    => /\ bgResult.status = "returned"
       /\ \A i \in DOMAIN bgImage.data : bgResult.canvas.data[i][4] = 0


\* C13: method 'ai' is an alias of method 'inpaint': for every image and
\* every region, inpaintRadius, iterations and autoDetect, the call with the
\* one method ends as the call with the other does and returns the same
\* buffer.
OtherOfAiAndInpaint(method) == IF method = "ai" THEN "inpaint" ELSE "ai"

C13_AiIsInpaint ==
    (wmStatus # "idle" /\ wmOptions.method \in {"ai", "inpaint"}) =>
        \E other \in {RemoveWatermark(image,
                        [wmOptions EXCEPT !.method = OtherOfAiAndInpaint(@)])} :
            /\ other.status = wmStatus
            /\ wmStatus = "returned" => other.canvas = wmCanvas

C13_Witness ==
    /\ wmStatus = "returned"
    /\ wmOptions.method = "ai"
    /\ wmOptions.hasRegion
    /\ wmCanvas.data # image.data


\* C14: a watermark method that is none of the known ones, passed to
\* removeWatermark, and an interpolation algorithm that is none of the known
\* ones, passed to upscaleImage, are rejected with UnsupportedMethod: the
\* call neither returns a buffer processed some other way nor returns the
\* image unchanged.
C14_UnknownMethodRejected ==
    /\ (wmStatus # "idle" /\ wmOptions.method \notin KnownWatermarkMethods)
            => wmStatus = "throws"
    /\ ( /\ pipeCalled = "upscaleImage"
         /\ pipeOptions.upscaleAlgorithm \notin KnownUpscaleAlgorithms )
            => (pipeResult.status = "throws"
                /\ pipeResult.error = "UnsupportedMethod")


\* C15: merging exactly two rectangles that overlap returns exactly one
\* rectangle, the smallest rectangle that contains both.
SharePixel(a, b) ==
    \E px \in 0..(2 * MaxCoord + 3), py \in 0..(2 * MaxCoord + 3) :
        /\ a.x <= px /\ px < a.x + a.width /\ a.y <= py /\ py < a.y + a.height
        /\ b.x <= px /\ px < b.x + b.width /\ b.y <= py /\ py < b.y + b.height

IsBoundingBox(box, a, b) ==
    /\ box.x = Min(a.x, b.x)
    /\ box.y = Min(a.y, b.y)
    /\ box.x + box.width = Max(a.x + a.width, b.x + b.width)
    /\ box.y + box.height = Max(a.y + a.height, b.y + b.height)

C15_TwoOverlappingBecomeUnion ==
    (mergeDone /\ Len(regions) = 2 /\ SharePixel(regions[1], regions[2])) =>
        /\ Len(merged) = 1
        /\ IsBoundingBox(merged[1], regions[1], regions[2])

C15_Witness ==
    /\ mergeDone
    /\ regions = <<Rect(0, 0, 2, 2), Rect(1, 1, 3, 2)>>
    /\ merged = <<Rect(0, 0, 4, 3)>>


\* C16: in processImageAdvanced with upscaleFactor > 1 and background
\* removal requested, upscaleImage is called first, on the input, and has
\* returned before removal starts; the remover that backgroundRemovalType
\* selects is called at most once, on the canvas upscaleImage returned, and
\* exactly once when the call has returned or failed; a returned buffer is
\* floor(width * f) wide and floor(height * f) high.
UpscaleThenRemove ==
    /\ pipeCalled = "processImageAdvanced"
    /\ pipeOptions.upscaleFactor.num > pipeOptions.upscaleFactor.den
    /\ pipeOptions.removeBackground

C16_UpscaleBeforeRemoval ==
    UpscaleThenRemove =>
        /\ Len(pipeTrace) \in 1..2
        /\ pipeTrace[1].fn = "upscaleImage"
        /\ pipeTrace[1].image = pipeImage
        /\ pipeTrace[1].canvas.width
                = FloorTimes(pipeImage.width, pipeOptions.upscaleFactor)
        /\ pipeTrace[1].canvas.height
                = FloorTimes(pipeImage.height, pipeOptions.upscaleFactor)
        /\ Len(pipeTrace) = 2 =>
            /\ pipeTrace[2].fn = RemoverName(pipeOptions)
            /\ pipeTrace[2].image = pipeTrace[1].canvas
        /\ pipeResult.status # "pending" => Len(pipeTrace) = 2
        /\ pipeResult.status = "returned" =>
            /\ pipeResult.canvas = pipeTrace[2].canvas
            /\ pipeResult.canvas.width
                    = FloorTimes(pipeImage.width, pipeOptions.upscaleFactor)
            /\ pipeResult.canvas.height
                    = FloorTimes(pipeImage.height, pipeOptions.upscaleFactor)

C16_Witness ==
    /\ UpscaleThenRemove
    /\ pipeResult.status = "returned"
    /\ pipeOptions.backgroundRemovalType = "advanced"
    /\ pipeOptions.backgroundOptions.backgroundColor.auto
    /\ pipeImage.width = 5
    /\ pipeResult.canvas.width = 10
    /\ pipeResult.canvas.data # pipeTrace[1].canvas.data
    /\ Len(pipeTrace) = 2


\* C17: when a donor of the region's size, 10 pixels away from it, fits
\* both above and below the region, the clone method copies from the side
\* on which the region has more room.
InBounds(x, y, w, h, img) ==
    x >= 0 /\ y >= 0 /\ x + w <= img.width /\ y + h <= img.height

DonorAboveY(r) == r.y - r.height - 10
DonorBelowY(r) == r.y + r.height + 10
RoomAbove(r) == r.y
RoomBelow(r, img) == img.height - (r.y + r.height)

FitsAboveAndBelow(r, img) ==
    /\ InBounds(r.x, DonorAboveY(r), r.width, r.height, img)
    /\ InBounds(r.x, DonorBelowY(r), r.width, r.height, img)

C17_CloneFromRoomierSide ==
    ( /\ wmStatus = "returned"
      /\ wmOptions.method = "clone"
      /\ wmOptions.hasRegion
      /\ FitsAboveAndBelow(wmOptions.watermarkRegion, image) )
    => /\ wmTrace.donor.copies
       /\ wmTrace.donor.x = wmOptions.watermarkRegion.x
       /\ RoomAbove(wmOptions.watermarkRegion)
                > RoomBelow(wmOptions.watermarkRegion, image)
            => wmTrace.donor.y = DonorAboveY(wmOptions.watermarkRegion)
       /\ RoomBelow(wmOptions.watermarkRegion, image)
                > RoomAbove(wmOptions.watermarkRegion)
            => wmTrace.donor.y = DonorBelowY(wmOptions.watermarkRegion)


\* C18: the clone method copies nothing exactly when no donor of the
\* region's size, 10 pixels above, below, left of or right of the region,
\* fits within the buffer; whenever it copies, the donor lies within the
\* buffer in both axes and shares no pixel with the region.
DonorLeftX(r) == r.x - r.width - 10
DonorRightX(r) == r.x + r.width + 10

SomeDonorFits(r, img) ==
    \/ InBounds(r.x, DonorAboveY(r), r.width, r.height, img)
    \/ InBounds(r.x, DonorBelowY(r), r.width, r.height, img)
    \/ InBounds(DonorLeftX(r), r.y, r.width, r.height, img)
    \/ InBounds(DonorRightX(r), r.y, r.width, r.height, img)

DonorApart(donor, r) ==
    \/ donor.x + r.width <= r.x \/ r.x + r.width <= donor.x
    \/ donor.y + r.height <= r.y \/ r.y + r.height <= donor.y

C18_CloneOnlyFromFittingDonor ==
    (wmStatus = "returned" /\ wmOptions.method = "clone" /\ wmOptions.hasRegion)
    => /\ ~wmTrace.donor.copies <=> ~SomeDonorFits(wmOptions.watermarkRegion, image)
       /\ wmTrace.donor.copies =>
            /\ InBounds(wmTrace.donor.x, wmTrace.donor.y,
                        wmOptions.watermarkRegion.width,
                        wmOptions.watermarkRegion.height, image)
            /\ DonorApart(wmTrace.donor, wmOptions.watermarkRegion)


\* C19: after removeWatermark with method 'blur' the alpha of every pixel is
\* its input alpha, with a manual region and with auto-detected regions.
C19_BlurKeepsAlpha ==
    (wmStatus = "returned" /\ wmOptions.method = "blur") => SameAlpha(wmCanvas, image)


\* C20: removeWatermark runs region detection only when no manual region is
\* given and autoDetect is true; with no region and autoDetect false the
\* methods blur, inpaint and clone return the image unchanged; a manual
\* region takes precedence over detection.
C20_DetectionOnlyWhenAsked ==
    wmStatus # "idle" =>
        /\ wmTrace.detects => (~wmOptions.hasRegion /\ wmOptions.autoDetect)
        /\ ( /\ ~wmOptions.hasRegion
             /\ ~wmOptions.autoDetect
             /\ wmOptions.method \in {"blur", "inpaint", "clone"} )
            => (wmStatus = "returned" /\ wmCanvas = image)


\* A sample quantized to 32 levels per channel: buckets of width 8.
Key32(c) == <<c[1] \div 8, c[2] \div 8, c[3] \div 8>>

\* The sample whose 32-level bucket is the most frequent among the samples,
\* the bucket met first winning a tie.
MostFrequentOf32(samples) ==
    MostCommonColor(samples, Table([k \in DOMAIN samples |-> Key32(samples[k])]))

\* C21: detectBackgroundColor returns the colour of the most frequent bucket
\* among the border samples, each sample quantized to 32 levels per channel,
\* the bucket met first in sampling order winning a tie.
C21_MostFrequentOf32Levels ==
    (bgResult.status = "returned" /\ bgOptions.backgroundColor.auto)
        => Key32(bgResult.bgColor)
             = Key32(MostFrequentOf32(
                   SamplesOf(bgImage.data, bgImage.width, bgImage.height)))


\* The Euclidean RGB distance of p to bgColor is strictly below tolerance.
CloserThan(p, bgColor, tolerance) ==
    tolerance > 0 /\ ColorDistanceSquared(p, bgColor) < tolerance * tolerance

\* The pixel i lies on the one-pixel border of a width x height image.
OnBorder(i, width, height) ==
    \/ i % width = 0 \/ i % width = width - 1
    \/ i \div width = 0 \/ i \div width = height - 1

\* The edge map of the call in the current state.
EdgesOfCall ==
    DetectEdges(bgImage.data, bgImage.width, bgImage.height, bgOptions.edgeThreshold)

\* What the claim says becomes of pixel i, given the edge map.
HeuristicPixelRule(i, edges) ==
    LET before == bgImage.data[i]
        after == bgResult.canvas.data[i]
    IN  /\ Rgb(after) = Rgb(before)
        /\ (after[4] = 0) <=>
              \/ before[4] = 0
              \/ (CloserThan(before, bgResult.bgColor, bgOptions.colorTolerance)
                    /\ ~edges[i])
        /\ after[4] # 0 => after[4] = before[4]
        /\ OnBorder(i, bgImage.width, bgImage.height) => ~edges[i]

\* C22: in heuristic background removal with smoothing <= 1, for every pixel
\* alpha becomes 0 if and only if it was 0 or the pixel is closer to the
\* background colour than colorTolerance and not flagged as an edge; otherwise
\* alpha is unchanged; R, G, B never change; border pixels are never edges.
C22_HeuristicPixelRule ==
    (bgResult.status = "returned" /\ bgOptions.smoothing <= 1)
        => \E edges \in {EdgesOfCall} :
               \A i \in DOMAIN bgImage.data : HeuristicPixelRule(i, edges)

\* A returned call without smoothing in which one pixel was cleared, one
\* pixel close to the background colour was kept because it is an edge, and
\* one pixel far from the background colour was kept.
C22_Witness ==
    /\ bgResult.status = "returned"
    /\ bgOptions.smoothing <= 1
    /\ \E edges \in {EdgesOfCall} :
          /\ \E i \in DOMAIN bgImage.data :
                bgImage.data[i][4] # 0 /\ bgResult.canvas.data[i][4] = 0
          /\ \E i \in DOMAIN bgImage.data :
                /\ edges[i]
                /\ CloserThan(bgImage.data[i], bgResult.bgColor, bgOptions.colorTolerance)
                /\ bgResult.canvas.data[i][4] = bgImage.data[i][4]
                /\ bgImage.data[i][4] # 0
          /\ \E i \in DOMAIN bgImage.data :
                /\ ~CloserThan(bgImage.data[i], bgResult.bgColor, bgOptions.colorTolerance)
                /\ bgResult.canvas.data[i][4] = bgImage.data[i][4]
                /\ bgImage.data[i][4] # 0


\* The masked pixel i has no unmasked pixel of the buffer within the
\* Euclidean distance inpaintRadius.
NoUnmaskedWithinRadius(i) ==
    \A j \in DOMAIN image.data :
        LET dx == (j % image.width) - (i % image.width)
            dy == (j \div image.width) - (i \div image.width)
        IN  dx * dx + dy * dy <= wmOptions.inpaintRadius * wmOptions.inpaintRadius
                => j \in wmTrace.mask

\* An inpaint call on a manual region, with one pass or more, has returned.
InpaintedRegion ==
    /\ wmStatus = "returned"
    /\ wmOptions.method = "inpaint"
    /\ wmOptions.hasRegion
    /\ wmOptions.iterations >= 1

\* C23: in the inpaint method a masked pixel with no unmasked in-bounds
\* pixel within the Euclidean distance inpaintRadius ends with RGB
\* (128, 128, 128) and its original alpha, for every iterations >= 1.
C23_IsolatedPixelBecomesGray ==
    InpaintedRegion
        => \A i \in wmTrace.mask :
               NoUnmaskedWithinRadius(i)
                   => wmCanvas.data[i] = <<128, 128, 128, image.data[i][4]>>

\* A call of two passes in which one masked pixel had no unmasked pixel in
\* reach and became gray, while a masked pixel next to it had one and was
\* filled with another colour in the first pass.
C23_Witness ==
    /\ InpaintedRegion
    /\ wmOptions.iterations = 2
    /\ \E i, j \in wmTrace.mask :
          /\ NoUnmaskedWithinRadius(i)
          /\ wmCanvas.data[i] = <<128, 128, 128, image.data[i][4]>>
          /\ Abs((i % image.width) - (j % image.width))
                + Abs((i \div image.width) - (j \div image.width)) = 1
          /\ ~NoUnmaskedWithinRadius(j)
          /\ Rgb(wmCanvas.data[j]) # <<128, 128, 128>>


\* The value v / (2 * d^3) a call of cubicWeight(n / d) returned.
CubicWeightReturned(v) ==
    kernelCalled = "cubicWeight" /\ kernelWeights = <<v>>

\* C24: cubicWeight(0) = 1, cubicWeight(t) = 0 for every |t| > 2, and
\* cubicWeight(t) = 0 at |t| = 1 and at |t| = 2, where the two polynomial
\* pieces and the zero outside agree.
C24_CubicWeightAtKnots ==
    kernelCalled = "cubicWeight"
        => /\ kernelT.n = 0
                => CubicWeightReturned(2 * kernelT.d * kernelT.d * kernelT.d)
           /\ Abs(kernelT.n) > 2 * kernelT.d => CubicWeightReturned(0)
           /\ Abs(kernelT.n) = kernelT.d => CubicWeightReturned(0)
           /\ Abs(kernelT.n) = 2 * kernelT.d => CubicWeightReturned(0)

\* A call of cubicWeight at t = -1, written as -3 / 3, has returned 0.
C24_Witness ==
    /\ kernelT = Fraction(-3, 3)
    /\ CubicWeightReturned(0)


\* C25: heuristic background removal with an auto-detected background
\* colour terminates for every buffer with width >= 1 and height >= 1,
\* sides below 10 included: no call is inside a loop that never ends.
C25_AutoRemovalTerminates ==
    (bgOptions.backgroundColor.auto /\ bgImage.width >= 1 /\ bgImage.height >= 1)
        => bgResult.status # "diverges"


\* C26: watermark region detection terminates for every buffer with
\* width >= 1 and height >= 1, buffers with min(width, height) < 16
\* included: no call that runs detection is inside a loop that never ends.
C26_DetectionTerminates ==
    (wmTrace.detects /\ image.width >= 1 /\ image.height >= 1)
        => wmStatus # "diverged"


\* C27: every batch run eventually finishes: once handleProcessImages has
\* set processingProgress, processingProgress eventually returns to null,
\* whatever image loading, model inference and the reload of the upscaled
\* image come to.
C27_BatchEventuallyFinishes ==
    (processingProgress # "null") ~> (processingProgress = "null")


\* The rectangle r lies within a width x height buffer and is not empty.
WithinBuffer(r, width, height) ==
    /\ r.x >= 0 /\ r.y >= 0 /\ r.width > 0 /\ r.height > 0
    /\ r.x + r.width <= width
    /\ r.y + r.height <= height

\* C28: every region returned by watermark detection lies within the
\* buffer: x >= 0, y >= 0, width > 0, height > 0, x + width <= buffer width
\* and y + height <= buffer height, for the candidates of both scans and for
\* every union the merge step makes.
C28_DetectedWithinBuffer ==
    \A k \in DOMAIN wmTrace.detected :
        WithinBuffer(wmTrace.detected[k], image.width, image.height)

\* Detection returned a region that is no candidate of either scan but the
\* union of a block of the transparency scan with a corner region, next to
\* corner regions returned as they were found.
C28_Witness ==
    /\ wmStatus = "returned"
    /\ wmTrace.detects
    /\ \E k \in DOMAIN wmTrace.detected :
          /\ wmTrace.detected[k].width > CornerSize(image.width, image.height)
          /\ RegionsOverlap(wmTrace.detected[k],
                            Corners(image.width, image.height)[1])
    /\ \E k \in DOMAIN wmTrace.detected :
          wmTrace.detected[k] = Corners(image.width, image.height)[4]


\* The rectangle inner lies within the rectangle outer.
ContainedIn(inner, outer) ==
    /\ outer.x <= inner.x /\ outer.y <= inner.y
    /\ inner.x + inner.width <= outer.x + outer.width
    /\ inner.y + inner.height <= outer.y + outer.height

\* C29: mergeOverlappingRegions loses no area: every input rectangle is
\* contained in at least one rectangle of the output, the output never has
\* more rectangles than the input, and a list of zero or one rectangle is
\* returned unchanged.
C29_MergeLosesNoArea ==
    mergeDone
        => /\ \A i \in DOMAIN regions :
                 \E k \in DOMAIN merged : ContainedIn(regions[i], merged[k])
           /\ Len(merged) <= Len(regions)
           /\ Len(regions) <= 1 => merged = regions

\* A call on three rectangles returned fewer, and one of the three is not in
\* the output itself but inside a larger rectangle of it.
C29_Witness ==
    /\ mergeDone
    /\ Len(regions) = 3
    /\ Len(merged) < Len(regions)
    /\ \E i \in DOMAIN regions :
          /\ \A k \in DOMAIN merged : merged[k] # regions[i]
          /\ \E k \in DOMAIN merged : ContainedIn(regions[i], merged[k])


\* Every pixel of the buffer equals p.
AllPixels(buffer, p) == \A i \in DOMAIN buffer.data : buffer.data[i] = p

\* A bicubic call of upscaleImage on a buffer of at least one pixel returned.
BicubicReturned ==
    /\ pipeCalled = "upscaleImage"
    /\ pipeOptions.upscaleAlgorithm = "bicubic"
    /\ pipeResult.status = "returned"
    /\ pipeImage.width >= 1 /\ pipeImage.height >= 1

\* C30: for every fractional offset d in [0, 1) the four weights
\* cubicWeight(d - i), i = -1..2, sum to 1; bicubic upscaling of a buffer
\* whose pixels are all equal returns a buffer in which every pixel has that
\* same RGBA value; every output channel is an integer in 0..255.
C30_PartitionOfUnity ==
    /\ kernelCalled = "bicubicInterpolation"
          => kernelWeights[1] + kernelWeights[2] + kernelWeights[3] + kernelWeights[4]
               = 2 * kernelT.d * kernelT.d * kernelT.d
    /\ BicubicReturned
          => /\ AllPixels(pipeImage, pipeImage.data[0])
                  => AllPixels(pipeResult.canvas, pipeImage.data[0])
             /\ \A i \in DOMAIN pipeResult.canvas.data :
                  \A c \in 1..4 : pipeResult.canvas.data[i][c] \in 0..255

\* A bicubic upscale by 3/2 of a 2 x 2 buffer of one semi-transparent colour
\* returned a 3 x 3 buffer of that colour: its pixels were sampled at the
\* offsets 0, 1/3 and 2/3.
C30_Witness ==
    /\ BicubicReturned
    /\ pipeOptions.upscaleFactor = Factor(3, 2)
    /\ pipeImage.width = 2 /\ pipeImage.height = 2
    /\ AllPixels(pipeImage, Palette[2])
    /\ pipeResult.canvas.width = 3 /\ pipeResult.canvas.height = 3
    /\ AllPixels(pipeResult.canvas, Palette[2])

=============================================================================
